---- MODULE Spec2Model ----
(***************************************************************************)
(* The expression compilers of dynamodb-crud: condition trees, selection   *)
(* trees and update trees are compiled into an ExpressionInput             *)
(* (expression text, attribute-name table, attribute-value table), and the *)
(* request conversions splice those tables into the request.               *)
(*                                                                         *)
(* Text.  A Rust String is modelled by a TLA+ string; format! is \o.  The  *)
(* `expression` of an ExpressionInput is kept as the sequence of its       *)
(* lexemes (a leaf fragment, an operator text, a parenthesis): Text(e) is  *)
(* the String the code holds, and the empty sequence is the empty String.  *)
(*                                                                         *)
(* Maps.  A HashMap is a TLA+ function, an IndexMap or Vec a sequence.     *)
(***************************************************************************)
EXTENDS Integers, Sequences, FiniteSets, TLC

VARIABLES
    input,      \* the object handed to the conversion (a tree or a request)
    output      \* NotRun before the conversion, its Result afterwards

vars == <<input, output>>

NotRun == [state |-> "not run"]

-----------------------------------------------------------------------------
(* Strings, vectors and hash maps                                          *)

RECURSIVE join(_, _)
\* [String]::join(sep)
join(strings, sep) ==
    IF Len(strings) = 0 THEN ""
    ELSE IF Len(strings) = 1 THEN strings[1]
    ELSE strings[1] \o sep \o join(Tail(strings), sep)

RECURSIVE join_lexemes(_, _)
\* [String]::join(sep), as the lexemes of the joined String
join_lexemes(strings, sep) ==
    IF Len(strings) = 0 THEN <<>>
    ELSE IF Len(strings) = 1 THEN <<strings[1]>>
    ELSE <<strings[1], sep>> \o join_lexemes(Tail(strings), sep)

RECURSIVE Text(_)
\* the String held by an expression: its lexemes, concatenated
Text(expression) ==
    IF Len(expression) = 0 THEN ""
    ELSE expression[1] \o Text(Tail(expression))

\* HashMap::new()
EmptyMap == [k \in {} |-> k]

\* an insert that leaves an entry the map has in its place and adds none
insert_if_present(map, key, value) ==
    [k \in DOMAIN map |-> IF k = key THEN value ELSE map[k]]

\* HashMap::insert: the new entry replaces an entry of the same key
insert(map, key, value) ==
    [k \in DOMAIN map \cup {key} |-> IF k = key THEN value ELSE map[k]]

\* an extend that keeps the entry the map already has for a key of the other map
extend_keeping_existing(map, other) ==
    [k \in DOMAIN map \cup DOMAIN other |->
        IF k \in DOMAIN map THEN map[k] ELSE other[k]]

\* HashMap::extend: the other map's entries replace entries of the same key
extend(map, other) ==
    [k \in DOMAIN map \cup DOMAIN other |->
        IF k \in DOMAIN other THEN other[k] ELSE map[k]]

RECURSIVE Concat(_)
\* the concatenation of a sequence of sequences
Concat(seqs) == IF Len(seqs) = 0 THEN <<>> ELSE Head(seqs) \o Concat(Tail(seqs))

\* the range of a sequence
Range(seq) == {seq[i] : i \in DOMAIN seq}

-----------------------------------------------------------------------------
(* Values and their encoding (serde_dynamo::to_attribute_value)            *)

\* a caller's value of the generic type T
StringValue(s) == [type |-> "String", s |-> s]
NumberValue(n) == [type |-> "Number", n |-> n]
\* a value whose Serialize implementation reports an error
Unserializable(id) == [type |-> "Unserializable", id |-> id]

\* to_attribute_value succeeds on every value but the unserializable ones
encodable(value) == value.type # "Unserializable"

\* AttributeValue::S(s), AttributeValue::N(decimal text)
to_attribute_value(value) ==
    IF value.type = "String" THEN [S |-> value.s]
    ELSE [N |-> ToString(value.n)]

\* the Err(e) of a failed conversion: e is the error of the value that failed
Err(value) == [ok |-> FALSE, error |-> value]

-----------------------------------------------------------------------------
(* common.rs                                                               *)

\* add_placeholder that returns the placeholder alone as the new path, without
\* the keys of the ancestors
add_placeholder_without_keys(keys, identifier) ==
    [placeholder |-> "#" \o identifier, new_keys |-> <<"#" \o identifier>>]

\* add_placeholder whose placeholder carries the depth of the segment
add_placeholder_with_depth(keys, identifier) ==
    LET placeholder == "#" \o identifier \o ToString(Len(keys))
    IN  [placeholder |-> placeholder, new_keys |-> Append(keys, placeholder)]

\* add_placeholder(keys, identifier) -> (placeholder, new_keys)
add_placeholder(keys, identifier) ==
    LET placeholder == "#" \o identifier
    IN  [placeholder |-> placeholder, new_keys |-> Append(keys, placeholder)]

\* get_expression that writes the operator next to an empty side as well
get_expression_always_joining(left, operator, right) ==
    left \o <<operator>> \o right

\* get_expression that looks for an empty left side only
get_expression_checking_left_only(left, operator, right) ==
    IF Len(left) = 0 THEN right ELSE left \o <<operator>> \o right

\* get_expression(left, operator, right)
get_expression(left, operator, right) ==
    IF Len(left) = 0 THEN right
    ELSE IF Len(right) = 0 THEN left
    ELSE left \o <<operator>> \o right

\* ExpressionInput::default()
DefaultExpressionInput ==
    [expression |-> <<>>,
     expression_attribute_names |-> EmptyMap,
     expression_attribute_values |-> EmptyMap]

RECURSIVE merge_from(_, _, _)
\* the loop of ExpressionInput::merge, from the accumulator `operation`
merge_from(operation, operator, items) ==
    IF Len(items) = 0 THEN operation
    ELSE LET item == Head(items)
         IN  merge_from(
                [expression |->
                    get_expression(operation.expression, operator, item.expression),
                 expression_attribute_names |->
                    extend(operation.expression_attribute_names,
                           item.expression_attribute_names),
                 expression_attribute_values |->
                    extend(operation.expression_attribute_values,
                           item.expression_attribute_values)],
                operator, Tail(items))

\* ExpressionInput::merge(operator, items)
merge(operator, items) == merge_from(DefaultExpressionInput, operator, items)

\* Option<HashMap>
None == [some |-> FALSE]
Some(x) == [some |-> TRUE, value |-> x]

\* ExpressionInput::merge_into(self, names, values): the two tables afterwards
\* and the returned expression
merge_into(self, names, values) ==
    [names |->
        IF names.some
        THEN Some(extend(names.value, self.expression_attribute_names))
        ELSE Some(self.expression_attribute_names),
     values |->
        IF values.some
        THEN Some(extend(values.value, self.expression_attribute_values))
        ELSE Some(self.expression_attribute_values),
     expression |-> self.expression]

-----------------------------------------------------------------------------
(* common/condition.rs                                                     *)

\* Condition<T>
Condition(variant, operands) == [variant |-> variant, operands |-> operands]
\* KeyCondition { condition, name }
KeyCondition(name, condition) == [name |-> name, condition |-> condition]
\* ConditionMap::Leaves(operator, key_conditions)
Leaves(operator, leaves) == [kind |-> "Leaves", operator |-> operator, leaves |-> leaves]
\* ConditionMap::Node(operator, map), the IndexMap as the sequence of its entries
Node(operator, map) == [kind |-> "Node", operator |-> operator, map |-> map]
Entry(key, value) == [key |-> key, value |-> value]

\* impl Deref for LogicalOperator
operator_text(operator) == IF operator = "And" THEN " AND " ELSE " OR "

\* the tags with that of LessThan written for LessThanOrEqual as well
tag_of_less_than(variant) ==
    IF variant = "LessThanOrEqual" THEN "lt"
    ELSE CASE variant = "BeginsWith" -> "begins_with"
           [] variant = "Between" -> "between"
           [] variant = "Contains" -> "contains"
           [] variant = "Equals" -> "eq"
           [] variant = "GreaterThan" -> "gt"
           [] variant = "GreaterThanOrEqual" -> "gte"
           [] variant = "In" -> "in"
           [] variant = "LessThan" -> "lt"
           [] variant = "NotContains" -> "not_contains"
           [] variant = "NotEqual" -> "ne"

\* the tag a Condition variant writes into its value placeholders
tag_of(variant) ==
    CASE variant = "BeginsWith" -> "begins_with"
      [] variant = "Between" -> "between"
      [] variant = "Contains" -> "contains"
      [] variant = "Equals" -> "eq"
      [] variant = "GreaterThan" -> "gt"
      [] variant = "GreaterThanOrEqual" -> "gte"
      [] variant = "In" -> "in"
      [] variant = "LessThan" -> "lt"
      [] variant = "LessThanOrEqual" -> "lte"
      [] variant = "NotContains" -> "not_contains"
      [] variant = "NotEqual" -> "ne"

\* a value placeholder written without the index
value_placeholder_without_index(key, variant, index) ==
    ":" \o key \o "_" \o tag_of(variant)

\* format!(":{}_<tag>{}", key, index)
value_placeholder(key, variant, index) ==
    ":" \o key \o "_" \o tag_of(variant) \o ToString(index)

\* the placeholders of an In that all carry the index the list began at
in_placeholder_of_the_list(key, index, in_index) ==
    ":" \o key \o "_in" \o ToString(index - in_index) \o "_" \o ToString(in_index)

\* format!(":{}_in{}_{}", key, index, in_index)
in_placeholder(key, index, in_index) ==
    ":" \o key \o "_in" \o ToString(index) \o "_" \o ToString(in_index)

\* the format! of a variant with one value placeholder
single_fragment(variant, key_placeholder, placeholder) ==
    CASE variant = "BeginsWith" ->
            "begins_with(" \o key_placeholder \o ", " \o placeholder \o ")"
      [] variant = "Contains" ->
            "contains(" \o key_placeholder \o ", " \o placeholder \o ")"
      [] variant = "Equals" -> key_placeholder \o " = " \o placeholder
      [] variant = "GreaterThan" -> key_placeholder \o " > " \o placeholder
      [] variant = "GreaterThanOrEqual" -> key_placeholder \o " >= " \o placeholder
      [] variant = "LessThan" -> key_placeholder \o " < " \o placeholder
      [] variant = "LessThanOrEqual" -> key_placeholder \o " <= " \o placeholder
      [] variant = "NotContains" ->
            "NOT contains(" \o key_placeholder \o ", " \o placeholder \o ")"
      [] variant = "NotEqual" -> key_placeholder \o " <> " \o placeholder

\* the positions of the operands that to_attribute_value rejects
failing(operands) == {i \in DOMAIN operands : ~encodable(operands[i])}

\* the last operand, in order, that to_attribute_value rejects
last_failing(operands) ==
    operands[CHOOSE i \in failing(operands) : \A j \in failing(operands) : j <= i]

\* the first operand, in order, that to_attribute_value rejects
first_failing(operands) ==
    operands[CHOOSE i \in failing(operands) : \A j \in failing(operands) : i <= j]

\* Condition::get_expression(self, key, key_placeholder, index): Err, or the
\* fragment, its values and the index afterwards
condition_get_expression(self, key, key_placeholder, index) ==
    CASE self.variant = "BeginsWith" ->
            \* the prefix is a String: AttributeValue::S(prefix), no encoding step
            LET placeholder == value_placeholder(key, self.variant, index)
            IN  [ok |-> TRUE,
                 expression |-> single_fragment(self.variant, key_placeholder, placeholder),
                 values |-> insert(EmptyMap, placeholder, [S |-> self.operands[1].s]),
                 index |-> index + 1]
      [] self.variant = "Between" ->
            IF failing(self.operands) # {} THEN Err(first_failing(self.operands))
            ELSE LET value_placeholder_1 == value_placeholder(key, self.variant, index)
                     value_placeholder_2 == value_placeholder(key, self.variant, index + 1)
                 IN  [ok |-> TRUE,
                      expression |-> key_placeholder \o " BETWEEN " \o value_placeholder_1
                                        \o " AND " \o value_placeholder_2,
                      values |-> insert(insert(EmptyMap, value_placeholder_1,
                                               to_attribute_value(self.operands[1])),
                                        value_placeholder_2,
                                        to_attribute_value(self.operands[2])),
                      index |-> index + 2]
      [] self.variant = "In" ->
            IF failing(self.operands) # {} THEN Err(first_failing(self.operands))
            ELSE LET placeholders ==
                        [i \in DOMAIN self.operands |->
                            in_placeholder(key, index + (i - 1), i - 1)]
                 IN  [ok |-> TRUE,
                      expression |-> key_placeholder \o " IN ("
                                        \o join(placeholders, ", ") \o ")",
                      values |-> [p \in Range(placeholders) |->
                                    \* a later insert replaces an earlier one
                                    LET last == CHOOSE i \in DOMAIN placeholders :
                                                    /\ placeholders[i] = p
                                                    /\ \A j \in DOMAIN placeholders :
                                                         placeholders[j] = p => j <= i
                                    IN  to_attribute_value(self.operands[last])],
                      index |-> index + Len(self.operands)]
      [] self.variant = "NotNull" ->
            [ok |-> TRUE,
             expression |-> "attribute_exists(" \o key_placeholder \o ")",
             values |-> EmptyMap,
             index |-> index]
      [] self.variant = "Null" ->
            [ok |-> TRUE,
             expression |-> "attribute_not_exists(" \o key_placeholder \o ")",
             values |-> EmptyMap,
             index |-> index]
      [] OTHER ->
            \* Contains, Equals, GreaterThan, GreaterThanOrEqual, LessThan,
            \* LessThanOrEqual, NotContains, NotEqual
            IF ~encodable(self.operands[1]) THEN Err(self.operands[1])
            ELSE LET placeholder == value_placeholder(key, self.variant, index)
                 IN  [ok |-> TRUE,
                      expression |-> single_fragment(self.variant, key_placeholder, placeholder),
                      values |-> insert(EmptyMap, placeholder,
                                        to_attribute_value(self.operands[1])),
                      index |-> index + 1]

RECURSIVE is_composite(_, _)
RECURSIVE is_composite_at_any_level(_, _)
RECURSIVE is_composite_after_update(_, _)

\* is_composite as the cases test_put_item::full, test_delete_item::full and
\* test_scan::full expect it: a Leaves that has a condition is composite at
\* every level, the root included
is_composite_at_any_level(self, is_nested) ==
    IF self.kind = "Leaves" THEN Len(self.leaves) > 0
    ELSE LET has_multiple_keys == Len(self.map) > 1
             child_is_nested == is_nested \/ has_multiple_keys
         IN  IF \E i \in DOMAIN self.map :
                    is_composite_at_any_level(self.map[i].value, child_is_nested)
             THEN FALSE
             ELSE has_multiple_keys

\* is_composite with the Node arm deciding on the is_nested value of the
\* node's children instead of the one the node was entered with
is_composite_after_update(self, is_nested) ==
    IF self.kind = "Leaves" THEN is_nested /\ Len(self.leaves) > 1
    ELSE LET has_multiple_keys == Len(self.map) > 1
             child_is_nested == is_nested \/ has_multiple_keys
         IN  IF \E i \in DOMAIN self.map :
                    is_composite_after_update(self.map[i].value, child_is_nested)
             THEN FALSE
             ELSE IF child_is_nested THEN has_multiple_keys ELSE FALSE

\* ConditionMap::is_composite(&self, is_nested)
is_composite(self, is_nested) ==
    IF self.kind = "Leaves" THEN is_nested /\ Len(self.leaves) > 1
    ELSE LET has_multiple_keys == Len(self.map) > 1
             child_is_nested == is_nested \/ has_multiple_keys
         IN  IF \E i \in DOMAIN self.map : is_composite(self.map[i].value, child_is_nested)
             THEN FALSE
             ELSE IF is_nested THEN has_multiple_keys ELSE FALSE

RECURSIVE leaves_operations(_, _, _, _)
\* the Leaves loop of get_expression_operation_recursive from its state
\* (operations, index): Err at the first failing condition, or all operations
leaves_operations(key_conditions, keys, index, operations) ==
    IF Len(key_conditions) = 0
    THEN [ok |-> TRUE, operations |-> operations, index |-> index]
    ELSE LET key_condition == Head(key_conditions)
             added == add_placeholder(keys, key_condition.name)
             key_placeholder == join(added.new_keys, ".")
             got == condition_get_expression(key_condition.condition,
                        key_condition.name, key_placeholder, index)
         IN  IF ~got.ok THEN got
             ELSE leaves_operations(Tail(key_conditions), keys, got.index,
                    Append(operations,
                        [expression |-> <<got.expression>>,
                         expression_attribute_names |->
                            insert(EmptyMap, added.placeholder, key_condition.name),
                         expression_attribute_values |-> got.values]))

RECURSIVE get_expression_operation_recursive(_, _, _, _)
RECURSIVE node_operations(_, _, _, _, _, _)

\* the Node loop of get_expression_operation_recursive from its state
\* (operations, index): Err at the first failing child, or all operations.
\* `calls` is the history of the invocations made so far (see below).
node_operations(map, keys, index, is_nested, operations, calls) ==
    IF Len(map) = 0
    THEN [ok |-> TRUE, operations |-> operations, index |-> index, calls |-> calls]
    ELSE LET key == Head(map).key
             added == add_placeholder(keys, key)
             got == get_expression_operation_recursive(
                        Head(map).value, added.new_keys, index, is_nested)
         IN  IF ~got.ok THEN got
             ELSE node_operations(Tail(map), keys, got.index, is_nested,
                    Append(operations,
                        [got.operation EXCEPT !.expression_attribute_names =
                            insert(@, added.placeholder, key)]),
                    calls \o got.calls)

\* the update with is_nested true below a Node of several children only, not
\* below all its descendants
nested_below_children_only(self, is_nested) == Len(self.map) > 1

\* the update with is_nested true below every Node
nested_below_every_node(self, is_nested) == TRUE

\* is_nested = is_nested || map.len() > 1
nested_below(self, is_nested) == is_nested \/ Len(self.map) > 1

\* format!("({})", expression)
wrap(expression) == <<"(">> \o expression \o <<")">>

\* ConditionMap::get_expression_operation_recursive(self, keys, index, is_nested):
\* Err, or the operation and the index afterwards.  The result also carries
\* `calls`, the history of the invocations of this function in the subtree, this
\* one last: for each its arguments (self, keys, the index and is_nested it was
\* entered with) and the expression and index it returned.
get_expression_operation_recursive(self, keys, index, is_nested) ==
    LET composite == is_composite(self, is_nested)
        got == IF self.kind = "Leaves"
               THEN leaves_operations(self.leaves, keys, index, <<>>)
               ELSE node_operations(self.map, keys, index,
                        nested_below(self, is_nested), <<>>, <<>>)
    IN  IF ~got.ok THEN got
        ELSE LET merged == merge(operator_text(self.operator), got.operations)
                 operation == IF composite
                              THEN [merged EXCEPT !.expression = wrap(@)]
                              ELSE merged
             IN  [ok |-> TRUE,
                  operation |-> operation,
                  index |-> got.index,
                  calls |->
                    (IF self.kind = "Leaves" THEN <<>> ELSE got.calls)
                    \o <<[self |-> self, keys |-> keys, index |-> index,
                          is_nested |-> is_nested,
                          expression |-> operation.expression,
                          index_after |-> got.index]>>]

\* impl TryFrom<ConditionMap<T>> for ExpressionInput
condition_try_from(condition_map) ==
    LET got == get_expression_operation_recursive(condition_map, <<>>, 0, FALSE)
    IN  IF got.ok THEN [ok |-> TRUE, operation |-> got.operation] ELSE got

\* KeyCondition::get_expression_operation(keys)
RECURSIVE key_conditions_loop(_, _, _, _, _)
key_conditions_loop(keys, index, expressions, names, values) ==
    IF Len(keys) = 0
    THEN [ok |-> TRUE,
          operation |->
            [expression |-> join_lexemes(expressions, operator_text("And")),
             expression_attribute_names |-> names,
             expression_attribute_values |-> values]]
    ELSE LET key == Head(keys)
             placeholder == "#" \o key.name
             got == condition_get_expression(key.condition, key.name, placeholder, index)
         IN  IF ~got.ok THEN got
             ELSE key_conditions_loop(Tail(keys), got.index,
                    Append(expressions, got.expression),
                    insert(names, placeholder, key.name),
                    extend(values, got.values))

key_condition_get_expression_operation(keys) ==
    key_conditions_loop(keys, 0, <<>>, EmptyMap, EmptyMap)

-----------------------------------------------------------------------------
(* common/selection.rs                                                     *)

\* SelectionMap::Leaves(names), SelectionMap::Node(map)
SelectionLeaves(leaves) == [kind |-> "Leaves", names |-> leaves]
SelectionNode(map) == [kind |-> "Node", map |-> map]

RECURSIVE get_selection_operation_recursive(_, _)
\* SelectionMap::get_selection_operation_recursive(self, keys)
get_selection_operation_recursive(self, keys) ==
    LET operations ==
            IF self.kind = "Leaves"
            THEN [i \in DOMAIN self.names |->
                    LET leaf == self.names[i]
                        added == add_placeholder(keys, leaf)
                    IN  [expression |-> <<join(added.new_keys, ".")>>,
                         expression_attribute_names |->
                            insert(EmptyMap, added.placeholder, leaf),
                         expression_attribute_values |-> EmptyMap]]
            ELSE [i \in DOMAIN self.map |->
                    LET key == self.map[i].key
                        added == add_placeholder(keys, key)
                        operation == get_selection_operation_recursive(
                                        self.map[i].value, added.new_keys)
                    IN  [operation EXCEPT !.expression_attribute_names =
                            insert(@, added.placeholder, key)]]
    IN  merge(", ", operations)

\* a conversion that encloses the compiled selection in parentheses
selection_from_enclosed(selection_map) ==
    LET operation == get_selection_operation_recursive(selection_map, <<>>)
    IN  [operation EXCEPT !.expression = <<"(">> \o @ \o <<")">>]

\* impl From<SelectionMap> for ExpressionInput
selection_from(selection_map) == get_selection_operation_recursive(selection_map, <<>>)

-----------------------------------------------------------------------------
(* write/update_item.rs: the update compiler                               *)

\* const PATH_SEPARATOR
PATH_SEPARATOR == "."

\* AddOrDeleteInputsMap::Leaves(Vec<(String, T)>), ::Node(IndexMap)
AddOrDeleteLeaves(leaves) == [kind |-> "Leaves", leaves |-> leaves]
AddOrDeleteNode(map) == [kind |-> "Node", map |-> map]
\* SetInputsMap::Leaves(Vec<(String, SetInput<T>)>), ::Node(IndexMap)
SetLeaves(leaves) == [kind |-> "Leaves", leaves |-> leaves]
SetNode(map) == [kind |-> "Node", map |-> map]
\* SetInput<T>
SetInput(variant, value) == [variant |-> variant, value |-> value]
\* UpdateExpressionMap<T>
Add(add_operations) == [kind |-> "Add", map |-> add_operations]
Delete(delete_operations) == [kind |-> "Delete", map |-> delete_operations]
Remove(remove_operations) == [kind |-> "Remove", map |-> remove_operations]
Set(set_operations) == [kind |-> "Set", map |-> set_operations]
Combined(combined_operations) == [kind |-> "Combined", list |-> combined_operations]

RECURSIVE get_add_or_delete_expression_recursive(_, _, _)
RECURSIVE add_or_delete_leaves(_, _, _, _)
RECURSIVE add_or_delete_node(_, _, _, _)

\* the Leaves loop of get_add_or_delete_expression_recursive
add_or_delete_leaves(leaves, keys, index, operations) ==
    IF Len(leaves) = 0
    THEN [ok |-> TRUE, operations |-> operations, index |-> index]
    ELSE LET key == Head(leaves)[1]
             value == Head(leaves)[2]
             added == add_placeholder(keys, key)
             path == join(added.new_keys, PATH_SEPARATOR)
         IN  IF ~encodable(value) THEN Err(value)
             ELSE LET placeholder == ":add_or_delete" \o ToString(index)
                  IN  add_or_delete_leaves(Tail(leaves), keys, index + 1,
                        Append(operations,
                            [expression |-> <<path \o " " \o placeholder>>,
                             expression_attribute_names |->
                                insert(EmptyMap, added.placeholder, key),
                             expression_attribute_values |->
                                insert(EmptyMap, placeholder, to_attribute_value(value))]))

\* the Node loop of get_add_or_delete_expression_recursive
add_or_delete_node(map, keys, index, operations) ==
    IF Len(map) = 0
    THEN [ok |-> TRUE, operations |-> operations, index |-> index]
    ELSE LET key == Head(map).key
             added == add_placeholder(keys, key)
             got == get_add_or_delete_expression_recursive(
                        Head(map).value, added.new_keys, index)
         IN  IF ~got.ok THEN got
             ELSE add_or_delete_node(Tail(map), keys, got.index,
                    Append(operations,
                        [got.operation EXCEPT !.expression_attribute_names =
                            insert(@, added.placeholder, key)]))

\* get_add_or_delete_expression_recursive that separates the leaves with ', '
get_add_or_delete_expression_listed(self, keys, index) ==
    LET got == IF self.kind = "Leaves"
               THEN add_or_delete_leaves(self.leaves, keys, index, <<>>)
               ELSE add_or_delete_node(self.map, keys, index, <<>>)
    IN  IF ~got.ok THEN got
        ELSE [ok |-> TRUE, operation |-> merge(", ", got.operations), index |-> got.index]

\* AddOrDeleteInputsMap::get_add_or_delete_expression_recursive(self, keys, index)
get_add_or_delete_expression_recursive(self, keys, index) ==
    LET got == IF self.kind = "Leaves"
               THEN add_or_delete_leaves(self.leaves, keys, index, <<>>)
               ELSE add_or_delete_node(self.map, keys, index, <<>>)
    IN  IF ~got.ok THEN got
        ELSE [ok |-> TRUE, operation |-> merge(" ", got.operations), index |-> got.index]

\* get_set_expression with the template of Assign for every variant
get_set_expression_assigning(self, path, placeholder) ==
    path \o " = " \o placeholder

\* SetInput::get_set_expression(self, path, value_placeholder): the expression
\* (the value is self.value)
get_set_expression(self, path, placeholder) ==
    CASE self.variant = "Assign" -> path \o " = " \o placeholder
      [] self.variant = "Increment" -> path \o " = " \o path \o " + " \o placeholder
      [] self.variant = "Decrement" -> path \o " = " \o path \o " - " \o placeholder
      [] self.variant = "ListAppend" ->
            path \o " = list_append(" \o path \o ", " \o placeholder \o ")"
      [] self.variant = "ListPrepend" ->
            path \o " = list_append(" \o placeholder \o ", " \o path \o ")"
      [] self.variant = "IfNotExists" ->
            path \o " = if_not_exists(" \o path \o ", " \o placeholder \o ")"

RECURSIVE get_set_expression_recursive(_, _, _)
RECURSIVE set_leaves(_, _, _, _)
RECURSIVE set_node(_, _, _, _)

\* the Leaves loop of get_set_expression_recursive
set_leaves(leaves, keys, index, operations) ==
    IF Len(leaves) = 0
    THEN [ok |-> TRUE, operations |-> operations, index |-> index]
    ELSE LET key == Head(leaves)[1]
             set_operation == Head(leaves)[2]
             added == add_placeholder(keys, key)
             path == join(added.new_keys, PATH_SEPARATOR)
             placeholder == ":set" \o ToString(index)
             expression == get_set_expression(set_operation, path, placeholder)
         IN  IF ~encodable(set_operation.value) THEN Err(set_operation.value)
             ELSE set_leaves(Tail(leaves), keys, index + 1,
                    Append(operations,
                        [expression |-> <<expression>>,
                         expression_attribute_names |->
                            insert(EmptyMap, added.placeholder, key),
                         expression_attribute_values |->
                            insert(EmptyMap, placeholder,
                                   to_attribute_value(set_operation.value))]))

\* the Node loop of get_set_expression_recursive
set_node(map, keys, index, operations) ==
    IF Len(map) = 0
    THEN [ok |-> TRUE, operations |-> operations, index |-> index]
    ELSE LET key == Head(map).key
             added == add_placeholder(keys, key)
             got == get_set_expression_recursive(Head(map).value, added.new_keys, index)
         IN  IF ~got.ok THEN got
             ELSE set_node(Tail(map), keys, got.index,
                    Append(operations,
                        [got.operation EXCEPT !.expression_attribute_names =
                            insert(@, added.placeholder, key)]))

\* SetInputsMap::get_set_expression_recursive(self, keys, index)
get_set_expression_recursive(self, keys, index) ==
    LET got == IF self.kind = "Leaves"
               THEN set_leaves(self.leaves, keys, index, <<>>)
               ELSE set_node(self.map, keys, index, <<>>)
    IN  IF ~got.ok THEN got
        ELSE [ok |-> TRUE, operation |-> merge(", ", got.operations), index |-> got.index]

\* format!("<KEYWORD> {}", operation.expression)
prefixed(keyword, expression) ==
    IF Len(expression) = 0 THEN <<keyword>>
    ELSE <<keyword \o Head(expression)>> \o Tail(expression)

RECURSIVE get_update_expression_recursive(_, _, _)
RECURSIVE combined_loop(_, _, _, _)
RECURSIVE combined_loop_resetting(_, _, _, _)
RECURSIVE combined_loop_prepending(_, _, _, _)

\* the Combined loop that puts every compiled sub-tree before the ones compiled
\* earlier
combined_loop_prepending(combined_operations, keys, index, operations) ==
    IF Len(combined_operations) = 0
    THEN [ok |-> TRUE, operations |-> operations, index |-> index]
    ELSE LET got == get_update_expression_recursive(Head(combined_operations), keys, index)
         IN  IF ~got.ok THEN got
             ELSE combined_loop_prepending(Tail(combined_operations), keys, got.index,
                                           <<got.operation>> \o operations)

\* the Combined loop with a counter that every sub-tree starts again from the
\* index the list was entered with
combined_loop_resetting(combined_operations, keys, index, operations) ==
    IF Len(combined_operations) = 0
    THEN [ok |-> TRUE, operations |-> operations, index |-> index]
    ELSE LET got == get_update_expression_recursive(Head(combined_operations), keys, index)
         IN  IF ~got.ok THEN got
             ELSE combined_loop_resetting(Tail(combined_operations), keys, index,
                                          Append(operations, got.operation))

\* the loop of the Combined arm of get_update_expression_recursive
combined_loop(combined_operations, keys, index, operations) ==
    IF Len(combined_operations) = 0
    THEN [ok |-> TRUE, operations |-> operations, index |-> index]
    ELSE LET got == get_update_expression_recursive(Head(combined_operations), keys, index)
         IN  IF ~got.ok THEN got
             ELSE combined_loop(Tail(combined_operations), keys, got.index,
                                Append(operations, got.operation))

\* UpdateExpressionMap::get_update_expression_recursive(self, keys, index)
get_update_expression_recursive(self, keys, index) ==
    CASE self.kind = "Add" ->
            LET got == get_add_or_delete_expression_recursive(self.map, keys, index)
            IN  IF ~got.ok THEN got
                ELSE [got EXCEPT !.operation.expression = prefixed("ADD ", @)]
      [] self.kind = "Delete" ->
            LET got == get_add_or_delete_expression_recursive(self.map, keys, index)
            IN  IF ~got.ok THEN got
                ELSE [got EXCEPT !.operation.expression = prefixed("DELETE ", @)]
      [] self.kind = "Remove" ->
            LET operation == get_selection_operation_recursive(self.map, keys)
            IN  [ok |-> TRUE,
                 operation |-> [operation EXCEPT !.expression = prefixed("REMOVE ", @)],
                 index |-> index]
      [] self.kind = "Set" ->
            LET got == get_set_expression_recursive(self.map, keys, index)
            IN  IF ~got.ok THEN got
                ELSE [got EXCEPT !.operation.expression = prefixed("SET ", @)]
      [] self.kind = "Combined" ->
            LET got == combined_loop(self.list, keys, index, <<>>)
            IN  IF ~got.ok THEN got
                ELSE [ok |-> TRUE,
                      operation |-> merge(" ", got.operations),
                      index |-> got.index]

\* impl TryFrom<UpdateExpressionMap<T>> for ExpressionInput
update_try_from(update_expression_map) ==
    LET got == get_update_expression_recursive(update_expression_map, <<>>, 0)
    IN  IF got.ok THEN [ok |-> TRUE, operation |-> got.operation] ELSE got

-----------------------------------------------------------------------------
(* common/key.rs                                                           *)

\* Key { name, value }
Key(name, value) == [name |-> name, value |-> value]
\* Keys { partition_key, sort_key }
Keys(partition_key, sort_key) == [partition_key |-> partition_key, sort_key |-> sort_key]

\* impl TryFrom<Keys<T>> for HashMap<String, AttributeValue>
keys_try_from(key) ==
    IF ~encodable(key.partition_key.value) THEN Err(key.partition_key.value)
    ELSE LET keys == insert(EmptyMap, key.partition_key.name,
                            to_attribute_value(key.partition_key.value))
         IN  IF ~key.sort_key.some THEN [ok |-> TRUE, keys |-> keys]
             ELSE IF ~encodable(key.sort_key.value.value)
             THEN Err(key.sort_key.value.value)
             ELSE [ok |-> TRUE,
                   keys |-> insert(keys, key.sort_key.value.name,
                                   to_attribute_value(key.sort_key.value.value))]

-----------------------------------------------------------------------------
(* write/common.rs                                                         *)

\* the body of TryFrom<WriteArgs>, given the outcome of condition.try_into()
write_input_of(write_args, condition_operation) ==
        IF ~condition_operation.ok THEN condition_operation
        ELSE [ok |-> TRUE,
              operation |->
                [condition_expression |->
                    IF write_args.condition.some
                    THEN Some(Text(condition_operation.operation.expression))
                    ELSE None,
                 expression_attribute_names |->
                    IF write_args.condition.some
                    THEN Some(condition_operation.operation.expression_attribute_names)
                    ELSE None,
                 expression_attribute_values |->
                    IF write_args.condition.some
                    THEN Some(condition_operation.operation.expression_attribute_values)
                    ELSE None,
                 return_consumed_capacity |-> write_args.return_consumed_capacity,
                 return_item_collection_metrics |->
                    write_args.return_item_collection_metrics,
                 return_values |-> write_args.return_values,
                 return_values_on_condition_check_failure |->
                    write_args.return_values_on_condition_check_failure,
                 table_name |-> write_args.table_name]]

\* impl TryFrom<WriteArgs<T>> for WriteInput
write_input_try_from(write_args) ==
    write_input_of(write_args,
        IF write_args.condition.some
        THEN condition_try_from(write_args.condition.value)
        ELSE [ok |-> TRUE])

\* a merge_expression that puts the tables of the operation in the place of
\* the tables of self
merge_expression_replacing(self, operation) ==
    [self |-> [self EXCEPT
                !.expression_attribute_names = Some(operation.expression_attribute_names),
                !.expression_attribute_values = Some(operation.expression_attribute_values)],
     expression |-> operation.expression]

\* WriteInput::merge_expression(&mut self, operation): self afterwards and the
\* returned expression
merge_expression(self, operation) ==
    LET merged == merge_into(operation, self.expression_attribute_names,
                             self.expression_attribute_values)
    IN  [self |-> [self EXCEPT !.expression_attribute_names = merged.names,
                               !.expression_attribute_values = merged.values],
         expression |-> merged.expression]

-----------------------------------------------------------------------------
(* write/put_item.rs, write/delete_item.rs, write/update_item.rs           *)

\* serde_dynamo::to_item(item): the outcomes of encoding an item, a map of
\* attribute name to value.  The error is that of the value the item's
\* Serialize implementation reaches first: any of the failing ones.
to_item(item) ==
    IF \A name \in DOMAIN item : encodable(item[name])
    THEN {[ok |-> TRUE, item |-> [name \in DOMAIN item |-> to_attribute_value(item[name])]]}
    ELSE {Err(item[name]) : name \in {n \in DOMAIN item : ~encodable(item[n])}}

\* the body of TryFrom<PutItem>, given the outcomes of to_item and of
\* put_item.write_args.try_into(), in the order the code takes them
put_item_of(item, write_operation) ==
    IF ~item.ok THEN item
    ELSE IF ~write_operation.ok THEN write_operation
    ELSE [ok |-> TRUE,
          operation |-> [item |-> item.item,
                         write_operation |-> write_operation.operation]]

\* impl TryFrom<PutItem<T>> for PutItemInput, given the outcome of to_item
put_item_try_from(put_item, item) ==
    put_item_of(item, write_input_try_from(put_item.write_args))

\* the body of TryFrom<DeleteItem>, given the outcomes of keys.try_into() and
\* of write_args.try_into(), in the order the code takes them
delete_item_of(keys, write_operation) ==
    IF ~keys.ok THEN keys
    ELSE IF ~write_operation.ok THEN write_operation
    ELSE [ok |-> TRUE,
          operation |-> [keys |-> keys.keys,
                         write_operation |-> write_operation.operation]]

\* impl TryFrom<DeleteItem<T>> for DeleteItemInput
delete_item_try_from(delete_item) ==
    delete_item_of(keys_try_from(delete_item.keys),
                   write_input_try_from(delete_item.write_args))

\* the body of TryFrom<UpdateItem>, given the outcomes of keys.try_into(), of
\* write_args.try_into() and of update_expression.try_into(), in the order the
\* code takes them
update_item_of(keys, write_operation, operation) ==
    IF ~keys.ok THEN keys
    ELSE IF ~write_operation.ok THEN write_operation
    ELSE IF ~operation.ok THEN operation
    ELSE LET merged == merge_expression(write_operation.operation, operation.operation)
         IN  [ok |-> TRUE,
              operation |->
                [keys |-> keys.keys,
                 update_expression |-> Text(merged.expression),
                 write_operation |-> merged.self]]

\* impl TryFrom<UpdateItem<T>> for UpdateItemInput
update_item_try_from(update_item) ==
    update_item_of(keys_try_from(update_item.keys),
                   write_input_try_from(update_item.write_args),
                   update_try_from(update_item.update_expression))

-----------------------------------------------------------------------------
(* read/common.rs                                                          *)

\* the exclusive_start_key loop of TryFrom<MultipleReadArgs>: the map is a
\* HashMap, iterated in an unspecified order, so that the error is that of any
\* of the failing values
serialized_exclusive_start_key(exclusive_start_key) ==
    IF ~exclusive_start_key.some THEN {[ok |-> TRUE, key |-> None]}
    ELSE LET map == exclusive_start_key.value
         IN  IF \A key \in DOMAIN map : encodable(map[key])
             THEN {[ok |-> TRUE,
                    key |-> Some([key \in DOMAIN map |-> to_attribute_value(map[key])])]}
             ELSE {Err(map[key]) : key \in {k \in DOMAIN map : ~encodable(map[k])}}

\* a body of TryFrom<MultipleReadArgs> that takes the names table from the
\* condition alone
multiple_read_input_of_condition_names(multiple_read_args, exclusive_start_key, condition_operation, selection_operation) ==
    IF ~exclusive_start_key.ok THEN exclusive_start_key
    ELSE IF ~condition_operation.ok THEN condition_operation
    ELSE [ok |-> TRUE,
          operation |->
            [consistent_read |-> multiple_read_args.consistent_read,
             exclusive_start_key |-> exclusive_start_key.key,
             expression_attribute_names |->
                IF multiple_read_args.condition.some
                THEN Some(condition_operation.operation.expression_attribute_names)
                ELSE None,
             expression_attribute_values |->
                IF multiple_read_args.condition.some
                THEN Some(condition_operation.operation.expression_attribute_values)
                ELSE None,
             filter_expression |->
                IF multiple_read_args.condition.some
                THEN Some(Text(condition_operation.operation.expression))
                ELSE None,
             index_name |-> multiple_read_args.index_name,
             limit |-> multiple_read_args.limit,
             projection_expression |->
                IF selection_operation.some
                THEN Some(Text(selection_operation.value.expression))
                ELSE None,
             select |-> multiple_read_args.select,
             table_name |-> multiple_read_args.table_name]]

\* the body of TryFrom<MultipleReadArgs>, given the outcomes of the
\* exclusive_start_key loop and of condition.try_into(), and the
\* selection_operation, an Option
multiple_read_input_of(multiple_read_args, exclusive_start_key, condition_operation, selection_operation) ==
    IF ~exclusive_start_key.ok THEN exclusive_start_key
    ELSE
    LET has_condition == multiple_read_args.condition.some
        has_selection == selection_operation.some
    IN  IF ~condition_operation.ok THEN condition_operation
        ELSE [ok |-> TRUE,
              operation |->
                [consistent_read |-> multiple_read_args.consistent_read,
                 exclusive_start_key |-> exclusive_start_key.key,
                 expression_attribute_names |->
                    CASE has_condition /\ has_selection ->
                            Some(extend(condition_operation.operation.expression_attribute_names,
                                        selection_operation.value.expression_attribute_names))
                      [] has_condition /\ ~has_selection ->
                            Some(condition_operation.operation.expression_attribute_names)
                      [] ~has_condition /\ has_selection ->
                            Some(selection_operation.value.expression_attribute_names)
                      [] OTHER -> None,
                 expression_attribute_values |->
                    IF has_condition
                    THEN Some(condition_operation.operation.expression_attribute_values)
                    ELSE None,
                 filter_expression |->
                    IF has_condition
                    THEN Some(Text(condition_operation.operation.expression))
                    ELSE None,
                 index_name |-> multiple_read_args.index_name,
                 limit |-> multiple_read_args.limit,
                 projection_expression |->
                    IF has_selection THEN Some(Text(selection_operation.value.expression))
                    ELSE None,
                 select |-> multiple_read_args.select,
                 table_name |-> multiple_read_args.table_name]]

\* impl TryFrom<MultipleReadArgs<T>> for MultipleReadInput, given the outcome
\* of the exclusive_start_key loop
multiple_read_input_try_from(multiple_read_args, exclusive_start_key) ==
    multiple_read_input_of(multiple_read_args, exclusive_start_key,
        IF multiple_read_args.condition.some
        THEN condition_try_from(multiple_read_args.condition.value)
        ELSE [ok |-> TRUE],
        IF multiple_read_args.selection.some
        THEN Some(selection_from(multiple_read_args.selection.value))
        ELSE None)

-----------------------------------------------------------------------------
(* read/scan.rs, read/query.rs                                             *)

\* the body of TryFrom<Scan>, given the outcome of multiple_read_args.try_into()
scan_of(scan, multiple_read_operation) ==
    IF ~multiple_read_operation.ok THEN multiple_read_operation
    ELSE [ok |-> TRUE,
          operation |->
            [multiple_read_operation |-> multiple_read_operation.operation,
             return_consumed_capacity |-> scan.return_consumed_capacity,
             segment |-> scan.segment,
             total_segments |-> scan.total_segments]]

\* impl TryFrom<Scan<T>> for ScanInput
scan_try_from(scan, exclusive_start_key) ==
    scan_of(scan, multiple_read_input_try_from(scan.multiple_read_args, exclusive_start_key))

\* Query::get_key_condition_expression(partition_key, sort_key)
get_key_condition_expression(partition_key, sort_key) ==
    LET condition == Condition("Equals", <<partition_key.value>>)
        keys == <<KeyCondition(partition_key.name, condition)>>
    IN  key_condition_get_expression_operation(
            IF sort_key.some THEN Append(keys, sort_key.value) ELSE keys)

\* the body of TryFrom<Query>, given the outcomes of multiple_read_args.try_into()
\* and of get_key_condition_expression, in the order the code takes them
query_of(query, multiple_read_operation, key_condition_operation) ==
        IF ~multiple_read_operation.ok THEN multiple_read_operation
        ELSE IF ~key_condition_operation.ok THEN key_condition_operation
        ELSE LET merged ==
                    merge_into(key_condition_operation.operation,
                               multiple_read_operation.operation.expression_attribute_names,
                               multiple_read_operation.operation.expression_attribute_values)
             IN  [ok |-> TRUE,
                  operation |->
                    [key_condition_expression |-> Text(merged.expression),
                     multiple_read_operation |->
                        [multiple_read_operation.operation EXCEPT
                            !.expression_attribute_names = merged.names,
                            !.expression_attribute_values = merged.values],
                     return_consumed_capacity |-> query.return_consumed_capacity,
                     scan_index_forward |-> query.scan_index_forward]]

\* impl TryFrom<Query<T>> for QueryInput
query_try_from(query, exclusive_start_key) ==
    query_of(query,
        multiple_read_input_try_from(query.multiple_read_args, exclusive_start_key),
        get_key_condition_expression(query.partition_key, query.sort_key_condition))

-----------------------------------------------------------------------------
(* read/common.rs SingleReadArgs, read/batch_get_item.rs                   *)

\* SingleReadArgs { consistent_read, selection, table_name }
SingleReadArgs(consistent_read, selection, table_name) ==
    [consistent_read |-> consistent_read, selection |-> selection,
     table_name |-> table_name]

\* impl From<SingleReadArgs> for SingleReadInput
single_read_input_from(single_read_args) ==
    [consistent_read |-> single_read_args.consistent_read,
     expression_attribute_names |->
        IF single_read_args.selection.some
        THEN Some(selection_from(single_read_args.selection.value).expression_attribute_names)
        ELSE None,
     projection_expression |->
        IF single_read_args.selection.some
        THEN Some(Text(selection_from(single_read_args.selection.value).expression))
        ELSE None,
     table_name |-> single_read_args.table_name]

\* BatchGetItem { items, return_consumed_capacity }: items is the IndexMap in
\* its insertion order, a sequence of entries of distinct SingleReadArgs
BatchGetItem(items, return_consumed_capacity) ==
    [kind |-> "BatchGetItem", items |-> items,
     return_consumed_capacity |-> return_consumed_capacity]

RECURSIVE serialized_keys_loop(_, _, _)
\* for key in keys { let key = key.try_into()?; serialized_keys.push(key); }
serialized_keys_loop(keys, index, serialized_keys) ==
    IF index > Len(keys) THEN [ok |-> TRUE, keys |-> serialized_keys]
    ELSE IF ~keys_try_from(keys[index]).ok THEN keys_try_from(keys[index])
    ELSE serialized_keys_loop(keys, index + 1,
            Append(serialized_keys, keys_try_from(keys[index]).keys))

\* KeysAndAttributes::builder() ... .build().unwrap() of one entry
keys_and_attributes(single_operation, serialized_keys) ==
    [consistent_read |-> single_operation.consistent_read,
     expression_attribute_names |-> single_operation.expression_attribute_names,
     keys |-> Some(serialized_keys),
     projection_expression |-> single_operation.projection_expression]

RECURSIVE request_items_loop(_, _, _)
\* for (args, keys) in batch_get_item.items { ... request_items.insert(
\* single_operation.table_name, keys_and_attributes); }
request_items_loop(items, index, request_items) ==
    IF index > Len(items) THEN [ok |-> TRUE, request_items |-> request_items]
    ELSE IF ~serialized_keys_loop(items[index].value, 1, <<>>).ok
    THEN serialized_keys_loop(items[index].value, 1, <<>>)
    ELSE request_items_loop(items, index + 1,
            insert(request_items, items[index].key.table_name,
                keys_and_attributes(single_read_input_from(items[index].key),
                    serialized_keys_loop(items[index].value, 1, <<>>).keys)))

\* the body of TryFrom<BatchGetItem>, given the outcome of the loop over items
batch_get_item_of(batch_get_item, looped) ==
    IF ~looped.ok THEN looped
    ELSE [ok |-> TRUE,
          operation |->
            [request_items |-> Some(looped.request_items),
             return_consumed_capacity |-> batch_get_item.return_consumed_capacity]]

\* impl TryFrom<BatchGetItem<T>> for BatchGetItemInput
batch_get_item_try_from(batch_get_item) ==
    batch_get_item_of(batch_get_item,
        request_items_loop(batch_get_item.items, 1, EmptyMap))

-----------------------------------------------------------------------------
(* The inputs: condition trees                                             *)


LogicalOperators == {"And", "Or"}

\* the largest number of Node levels above a Leaves
MaxDepth == 2
\* the largest number of conditions of one Leaves
MaxLeaves == 2
\* the largest size of a tree of several levels: its Leaves and Nodes plus its
\* conditions
MaxSize == 9

\* the segment names of the enumerated trees: Node keys and condition names
Names == {"a", "b"}

\* the operand values of the enumerated trees
V1 == StringValue("v")
V2 == NumberValue(5)
Bad == Unserializable(1)

\* every variant of Condition, with operands that encode and operands that do not
Conditions ==
    {Condition("BeginsWith", <<StringValue("p")>>),
     Condition("Between", <<V2, NumberValue(10)>>),
     Condition("Between", <<V1, Bad>>),
     Condition("Contains", <<V1>>),
     Condition("Equals", <<V1>>),
     Condition("Equals", <<Bad>>),
     Condition("GreaterThan", <<V2>>),
     Condition("GreaterThanOrEqual", <<V2>>),
     Condition("In", <<V1, V2>>),
     Condition("In", <<>>),
     Condition("LessThan", <<V2>>),
     Condition("LessThanOrEqual", <<V2>>),
     Condition("NotContains", <<V1>>),
     Condition("NotEqual", <<V1>>),
     Condition("NotNull", <<>>),
     Condition("Null", <<>>)}

\* the trees of one level: a root Leaves of at most MaxLeaves conditions
FlatTrees ==
    {Leaves(operator, leaves) :
        operator \in LogicalOperators,
        leaves \in UNION {[1..n -> {KeyCondition(name, condition) :
                                      name \in Names, condition \in Conditions}] :
                          n \in 0..MaxLeaves}}

\* the conditions of the Leaves of the trees of several levels: a Leaves of n
\* conditions holds the first n of these
NestedLeaves ==
    <<KeyCondition("a", Condition("Equals", <<V1>>)),
      KeyCondition("a", Condition("In", <<V2, V1>>)),
      KeyCondition("b", Condition("Null", <<>>)),
      KeyCondition("b", Condition("Between", <<V2, V2>>))>>

\* the set S as an enumerated set
Enum(S) == {x \in S : TRUE}

RECURSIVE TreeSeqs(_, _, _, _)
\* the sequences of `count` trees of `below` (size -> trees) of the given total
\* size whose first tree has at least the size `first`
TreeSeqs(size, count, below, first) ==
    IF count = 0 THEN (IF size = 0 THEN {<<>>} ELSE {})
    ELSE IF first > size THEN {}
    ELSE Enum({<<value>> \o rest :
                value \in below[first],
                rest \in TreeSeqs(size - first, count - 1, below, 1)}
              \cup TreeSeqs(size, count, below, first + 1))

\* the sequences of `count` distinct names
KeySeqs(count) ==
    {keys \in [1..count -> Names] :
        \A i, j \in 1..count : i # j => keys[i] # keys[j]}

RECURSIVE MapsOfSize(_, _, _)
\* the IndexMaps of `count` entries or more over the trees of `below` whose
\* trees have the given total size
MapsOfSize(size, below, count) ==
    IF count > Cardinality(Names) THEN {}
    ELSE Enum({[i \in 1..count |-> Entry(keys[i], values[i])] :
                keys \in KeySeqs(count),
                values \in TreeSeqs(size, count, below, 1)}
              \cup MapsOfSize(size, below, count + 1))

\* the Leaves of the given size, of at least `least` conditions
LeavesOfSize(size, least) ==
    IF size - 1 \in least..MaxLeaves
    THEN {Leaves(operator, SubSeq(NestedLeaves, 1, size - 1)) :
            operator \in LogicalOperators}
    ELSE {}

\* size -> the trees of that size that are a Leaves of at least `least`
\* conditions or a Node of at least `least` children, trees of `below`
Grow(below, least, largest) ==
    [size \in 1..largest |->
        Enum(LeavesOfSize(size, least) \cup
             {Node(operator, map) :
                operator \in LogicalOperators,
                map \in MapsOfSize(size - 1, below, least)})] @@ <<>>

TreesOfDepth0 == [size \in 1..MaxSize |-> LeavesOfSize(size, 1)] @@ <<>>
TreesOfDepth1 == IF MaxDepth >= 1 THEN Grow(TreesOfDepth0, 1, MaxSize) ELSE <<>>
TreesOfDepth2 == IF MaxDepth >= 2 THEN Grow(TreesOfDepth1, 1, MaxSize) ELSE <<>>
TreesOfDepth3 == IF MaxDepth >= 3 THEN Grow(TreesOfDepth2, 1, MaxSize) ELSE <<>>

\* size -> the trees of that size and of at most MaxDepth levels of Nodes, every
\* Leaves and every Node of them non-empty: the size of a tree is the number of
\* its Leaves, Nodes and conditions
NestedTreesBySize ==
    CASE MaxDepth = 0 -> TreesOfDepth0
      [] MaxDepth = 1 -> TreesOfDepth1
      [] MaxDepth = 2 -> TreesOfDepth2
      [] MaxDepth = 3 -> TreesOfDepth3

\* the largest tree among those that have Leaves without conditions and Nodes
\* without children
MaxSparseSize == 5

SparseTreesOfDepth0 == [size \in 1..MaxSparseSize |-> LeavesOfSize(size, 0)] @@ <<>>
SparseTreesOfDepth1 ==
    IF MaxDepth >= 1 THEN Grow(SparseTreesOfDepth0, 0, MaxSparseSize) ELSE <<>>
SparseTreesOfDepth2 ==
    IF MaxDepth >= 2 THEN Grow(SparseTreesOfDepth1, 0, MaxSparseSize) ELSE <<>>
SparseTreesOfDepth3 ==
    IF MaxDepth >= 3 THEN Grow(SparseTreesOfDepth2, 0, MaxSparseSize) ELSE <<>>

\* size -> the trees of that size and of at most MaxDepth levels of Nodes, also
\* those with a Leaves or a Node that is empty
SparseTreesBySize ==
    CASE MaxDepth = 0 -> SparseTreesOfDepth0
      [] MaxDepth = 1 -> SparseTreesOfDepth1
      [] MaxDepth = 2 -> SparseTreesOfDepth2
      [] MaxDepth = 3 -> SparseTreesOfDepth3

Equals(name, s) == KeyCondition(name, Condition("Equals", <<StringValue(s)>>))
EqualsNumber(name, n) == KeyCondition(name, Condition("Equals", <<NumberValue(n)>>))

\* the trees of the cases of test_condition_map_to_condition_operation
LeavesSingleCondition == Leaves("And", <<EqualsNumber("a", 1)>>)
LeavesMultipleConditionsAnd ==
    Leaves("And", <<Equals("a", "b"), EqualsNumber("c", 1)>>)
LeavesMultipleConditionsOr ==
    Leaves("Or", <<KeyCondition("a", Condition("Between",
                                    <<NumberValue(1), NumberValue(10)>>)),
                   KeyCondition("b", Condition("BeginsWith", <<StringValue("c")>>))>>)
NodeSingleLevel ==
    Node("And", <<Entry("a", Leaves("And", <<Equals("b", "c")>>)),
                  Entry("b", Leaves("Or", <<Equals("d", "e")>>))>>)
NodeNested ==
    Node("And",
         <<Entry("a", Node("And",
                <<Entry("b", Leaves("And", <<Equals("c", "d"), Equals("e", "f")>>))>>)),
           Entry("b", Leaves("Or", <<Equals("g", "h"), Equals("i", "j")>>))>>)
LeavesSameKeyOrEquals ==
    Leaves("Or", <<EqualsNumber("a", 1), EqualsNumber("a", 2)>>)
LeavesSameKeyOrDifferentOperators ==
    Leaves("Or", <<KeyCondition("a", Condition("GreaterThan", <<NumberValue(5)>>)),
                   KeyCondition("a", Condition("LessThan", <<NumberValue(3)>>))>>)
NodeNestedSameKeyOr ==
    Node("And", <<Entry("a", Leaves("Or", <<Equals("b", "x"), Equals("b", "y")>>))>>)
InterKeyCollisionAcrossLeaves ==
    Node("And", <<Entry("x", Leaves("And", <<EqualsNumber("a", 1)>>)),
                  Entry("y", Leaves("And", <<EqualsNumber("a", 2)>>))>>)

TestTrees ==
    {LeavesSingleCondition, LeavesMultipleConditionsAnd, LeavesMultipleConditionsOr,
     NodeSingleLevel, NodeNested, LeavesSameKeyOrEquals,
     LeavesSameKeyOrDifferentOperators, NodeNestedSameKeyOr,
     InterKeyCollisionAcrossLeaves}

-----------------------------------------------------------------------------
(* Compiling a condition tree                                              *)

InitCondition ==
    /\ \/ input \in FlatTrees
       \/ \E size \in 1..MaxSize : input \in NestedTreesBySize[size]
       \/ \E size \in 1..MaxSparseSize : input \in SparseTreesBySize[size]
       \/ input \in TestTrees
    /\ output = NotRun

\* ExpressionInput::try_from(condition_map)
CompileCondition ==
    /\ output = NotRun
    /\ output' = condition_try_from(input)
    /\ UNCHANGED input

NextCondition == CompileCondition

SpecCondition == InitCondition /\ [][NextCondition]_vars

-----------------------------------------------------------------------------
(* Compiling an update tree                                                *)

\* the longest Leaves list of the enumerated update trees
MaxUpdateLeaves == 2
\* the longest Combined list of the enumerated update trees
MaxCombined == 2

\* the sequences over S of at most n elements
SeqsUpTo(S, n) == UNION {[1..k -> S] : k \in 0..n}

\* the (name, value) leaves of ADD and DELETE
AddOrDeleteLeafChoices == {<<name, value>> : name \in Names, value \in {V2, Bad}}

SetVariants ==
    {"Assign", "Increment", "Decrement", "ListAppend", "ListPrepend", "IfNotExists"}

\* the (name, SetInput) leaves of SET
SetLeafChoices ==
    {<<name, SetInput(variant, value)>> :
        name \in Names, variant \in SetVariants, value \in {V1, Bad}}

\* Leaves, and Nodes of one or two entries over Leaves of one leaf
AddOrDeleteMaps ==
    {AddOrDeleteLeaves(leaves) : leaves \in SeqsUpTo(AddOrDeleteLeafChoices, MaxUpdateLeaves)}
    \cup {AddOrDeleteNode(map) :
            map \in SeqsUpTo({Entry(key, AddOrDeleteLeaves(<<leaf>>)) :
                                key \in Names, leaf \in AddOrDeleteLeafChoices}, 2)}

SetMaps ==
    {SetLeaves(leaves) : leaves \in SeqsUpTo(SetLeafChoices, MaxUpdateLeaves)}
    \cup {SetNode(<<Entry(key, SetLeaves(<<leaf>>))>>) :
            key \in Names, leaf \in SetLeafChoices}
    \cup {SetNode(<<Entry("a", SetNode(<<Entry("b", SetLeaves(<<leaf>>))>>)),
                    Entry("b", SetLeaves(<<leaf>>))>>) : leaf \in SetLeafChoices}

SelectionMaps ==
    {SelectionLeaves(leaves) : leaves \in SeqsUpTo(Names, 2)}
    \cup {SelectionNode(map) :
            map \in SeqsUpTo({Entry(key, SelectionLeaves(<<leaf>>)) :
                                key \in Names, leaf \in Names}, 2)}

\* the trees of one clause
Clauses ==
    {Add(map) : map \in AddOrDeleteMaps}
    \cup {Delete(map) : map \in AddOrDeleteMaps}
    \cup {Set(map) : map \in SetMaps}
    \cup {Remove(map) : map \in SelectionMaps}

\* the clauses the enumerated Combined lists are made of
CombinedParts ==
    {Set(SetLeaves(<<<<"a", SetInput("Assign", V1)>>>>)),
     Set(SetLeaves(<<<<"a", SetInput("Increment", V2)>>,
                     <<"b", SetInput("ListAppend", V1)>>>>)),
     Remove(SelectionLeaves(<<"a">>)),
     Add(AddOrDeleteLeaves(<<<<"b", V2>>>>)),
     Delete(AddOrDeleteNode(<<Entry("a", AddOrDeleteLeaves(<<<<"b", V1>>>>))>>)),
     Add(AddOrDeleteLeaves(<<<<"a", Bad>>>>))}

\* Combined lists of clauses
CombinedOfClauses == {Combined(list) : list \in SeqsUpTo(CombinedParts, MaxCombined)}

\* Combined lists that hold a Combined list, before or after at most one clause
CombinedOfCombined ==
    {Combined(<<inner>> \o list) :
        inner \in CombinedOfClauses, list \in SeqsUpTo(CombinedParts, 1)}
    \cup {Combined(list \o <<inner>>) :
            inner \in CombinedOfClauses, list \in SeqsUpTo(CombinedParts, 1)}

\* the update tree of the crate's documentation and of the test
\* combined_operations: SET, REMOVE and ADD with one leaf each
CombinedSetRemoveAdd ==
    Combined(<<Set(SetLeaves(<<<<"attr1", SetInput("Assign", StringValue("val1"))>>>>)),
               Remove(SelectionLeaves(<<"oldAttr">>)),
               Add(AddOrDeleteLeaves(<<<<"count", NumberValue(5)>>>>))>>)

\* a Combined list in a Combined list in a Combined list
CombinedThreeDeep ==
    Combined(<<Add(AddOrDeleteLeaves(<<<<"a", V2>>>>)),
               Combined(<<Remove(SelectionLeaves(<<"b">>)),
                          Combined(<<Set(SetLeaves(<<<<"a", SetInput("Assign", V1)>>>>)),
                                     Delete(AddOrDeleteLeaves(<<<<"b", V1>>>>))>>),
                          Set(SetLeaves(<<<<"b", SetInput("Decrement", V2)>>>>))>>)>>)

UpdateTrees ==
    Clauses \cup CombinedOfClauses \cup CombinedOfCombined
        \cup {CombinedSetRemoveAdd, CombinedThreeDeep}

InitUpdate ==
    /\ input \in UpdateTrees
    /\ output = NotRun

\* ExpressionInput::try_from(update_expression_map)
CompileUpdate ==
    /\ output = NotRun
    /\ output' = update_try_from(input)
    /\ UNCHANGED input

NextUpdate == CompileUpdate

SpecUpdate == InitUpdate /\ [][NextUpdate]_vars

-----------------------------------------------------------------------------
(* Converting a request                                                    *)

\* the largest tree of several levels that is a request's condition
MaxRequestSize == 3

\* the condition of the cases test_put_item::full, test_delete_item::full and
\* test_scan::full: one Equals condition on attribute c
LeavesEqualsC == Leaves("And", <<Equals("c", "d")>>)

\* a second value that to_attribute_value rejects, with an error of its own
Worse == Unserializable(2)

\* condition trees with several operands that to_attribute_value rejects
FailingConditions ==
    {Leaves("And", <<KeyCondition("a", Condition("Equals", <<Worse>>)),
                     KeyCondition("b", Condition("Equals", <<Bad>>))>>),
     Leaves("Or", <<KeyCondition("a", Condition("Between", <<Worse, Bad>>))>>),
     Leaves("And", <<KeyCondition("a", Condition("In", <<V1, Worse, Bad>>)),
                     KeyCondition("b", Condition("Equals", <<V1>>))>>),
     Leaves("And", <<KeyCondition("a", Condition("Equals", <<V1>>)),
                     KeyCondition("b", Condition("In", <<Bad, Worse>>))>>),
     Node("And", <<Entry("a", Leaves("And", <<KeyCondition("c", Condition("Equals", <<V1>>)),
                                              KeyCondition("c", Condition("Equals", <<Worse>>))>>)),
                   Entry("b", Leaves("And", <<KeyCondition("c", Condition("Equals", <<Bad>>))>>))>>),
     Node("Or", <<Entry("a", Node("And",
                        <<Entry("b", Leaves("And",
                            <<KeyCondition("c", Condition("GreaterThan", <<Bad>>))>>))>>)),
                  Entry("b", Leaves("And", <<KeyCondition("c", Condition("Equals", <<Worse>>))>>))>>)}

\* a Combined list whose third clause holds the first value that is rejected
FailingCombined ==
    Combined(<<Set(SetLeaves(<<<<"a", SetInput("Assign", V1)>>>>)),
               Remove(SelectionLeaves(<<"b">>)),
               Add(AddOrDeleteLeaves(<<<<"a", Worse>>>>)),
               Set(SetLeaves(<<<<"b", SetInput("Assign", Bad)>>>>))>>)

\* update trees with several values that to_attribute_value rejects
FailingUpdates ==
    {Set(SetLeaves(<<<<"a", SetInput("Assign", Worse)>>, <<"b", SetInput("Increment", Bad)>>>>)),
     Add(AddOrDeleteLeaves(<<<<"a", V2>>, <<"b", Worse>>, <<"a", Bad>>>>)),
     Delete(AddOrDeleteNode(<<Entry("a", AddOrDeleteLeaves(<<<<"b", Bad>>>>)),
                              Entry("b", AddOrDeleteLeaves(<<<<"a", Worse>>>>))>>)),
     Set(SetNode(<<Entry("a", SetLeaves(<<<<"b", SetInput("Assign", V1)>>>>)),
                   Entry("b", SetLeaves(<<<<"a", SetInput("ListAppend", Bad)>>,
                                          <<"b", SetInput("Assign", Worse)>>>>))>>)),
     FailingCombined}

\* the conditions of the enumerated requests
RequestConditions ==
    TestTrees \cup {LeavesEqualsC, Leaves("And", <<KeyCondition("c", Condition("Equals", <<Bad>>))>>)}
        \cup FailingConditions
        \cup UNION {NestedTreesBySize[size] : size \in 1..MaxRequestSize}

OptionOf(S) == {None} \cup {Some(x) : x \in S}

\* the fields a conversion copies: all absent, or all present
WriteArgsOf(condition, present) ==
    [condition |-> condition,
     return_consumed_capacity |-> IF present THEN Some("Total") ELSE None,
     return_item_collection_metrics |-> IF present THEN Some("Size") ELSE None,
     return_values |-> IF present THEN Some("AllOld") ELSE None,
     return_values_on_condition_check_failure |-> IF present THEN Some("AllOld") ELSE None,
     table_name |-> "table"]

WriteArgsSet ==
    {WriteArgsOf(condition, present) :
        condition \in OptionOf(RequestConditions), present \in BOOLEAN}

MultipleReadArgsOf(condition, exclusive_start_key, selection, present) ==
    [condition |-> condition,
     consistent_read |-> IF present THEN Some(TRUE) ELSE None,
     exclusive_start_key |-> exclusive_start_key,
     index_name |-> IF present THEN Some("index") ELSE None,
     limit |-> IF present THEN Some(10) ELSE None,
     select |-> IF present THEN Some("SpecificAttributes") ELSE None,
     selection |-> selection,
     table_name |-> "table"]

ExclusiveStartKeys ==
    {[name \in {"a"} |-> V1],
     [name \in {"a", "b"} |-> IF name = "a" THEN Bad ELSE Unserializable(2)],
     [name \in {"a", "b"} |-> IF name = "a" THEN Unserializable(2) ELSE V2]}

RequestSelections ==
    {SelectionLeaves(<<"a", "e">>),
     SelectionNode(<<Entry("e", SelectionLeaves(<<"f", "a">>))>>)}

MultipleReadArgsSet ==
    {MultipleReadArgsOf(condition, exclusive_start_key, selection, present) :
        condition \in OptionOf(RequestConditions),
        exclusive_start_key \in OptionOf(ExclusiveStartKeys),
        selection \in OptionOf(RequestSelections),
        present \in BOOLEAN}

Items ==
    {[name \in {"a"} |-> V1], [name \in {"a", "b"} |-> IF name = "a" THEN V1 ELSE V2],
     [name \in {"a", "b"} |-> IF name = "a" THEN Bad ELSE Unserializable(2)],
     [name \in {"a", "b"} |-> IF name = "a" THEN Unserializable(2) ELSE V1]}

KeysSet ==
    {Keys(Key("a", value), sort_key) :
        value \in {V1, Bad},
        sort_key \in OptionOf({Key("b", V2), Key("b", Unserializable(2))})}

\* the partition key and the sort key condition of a Query
PartitionKeys == {Key(name, value) : name \in {"a", "k"}, value \in {V1, V2, Bad}}
SortKeyConditions ==
    {KeyCondition("b", Condition("Between", <<V2, NumberValue(10)>>)),
     KeyCondition("s", Condition("BeginsWith", <<StringValue("p")>>)),
     KeyCondition("s", Condition("GreaterThan", <<Bad>>))}

RequestUpdates ==
    CombinedParts \cup {CombinedSetRemoveAdd, CombinedThreeDeep} \cup FailingUpdates

PutItem(item, write_args) ==
    [kind |-> "PutItem", item |-> item, write_args |-> write_args]
DeleteItem(keys, write_args) ==
    [kind |-> "DeleteItem", keys |-> keys, write_args |-> write_args]
UpdateItem(keys, update_expression, write_args) ==
    [kind |-> "UpdateItem", keys |-> keys, update_expression |-> update_expression,
     write_args |-> write_args]
Scan(multiple_read_args, present) ==
    [kind |-> "Scan", multiple_read_args |-> multiple_read_args,
     return_consumed_capacity |-> IF present THEN Some("Total") ELSE None,
     segment |-> IF present THEN Some(1) ELSE None,
     total_segments |-> IF present THEN Some(2) ELSE None]
Query(multiple_read_args, partition_key, sort_key_condition, present) ==
    [kind |-> "Query", multiple_read_args |-> multiple_read_args,
     partition_key |-> partition_key,
     return_consumed_capacity |-> IF present THEN Some("Total") ELSE None,
     scan_index_forward |-> IF present THEN Some(TRUE) ELSE None,
     sort_key_condition |-> sort_key_condition]

InitRequest ==
    /\ \/ \E item \in Items, write_args \in WriteArgsSet :
                input = PutItem(item, write_args)
       \/ \E keys \in KeysSet, write_args \in WriteArgsSet :
                input = DeleteItem(keys, write_args)
       \/ \E keys \in KeysSet, update_expression \in RequestUpdates,
             write_args \in WriteArgsSet :
                input = UpdateItem(keys, update_expression, write_args)
       \/ \E multiple_read_args \in MultipleReadArgsSet :
                input = Scan(multiple_read_args, multiple_read_args.limit.some)
       \/ \E multiple_read_args \in MultipleReadArgsSet,
             partition_key \in PartitionKeys,
             sort_key_condition \in OptionOf(SortKeyConditions) :
                input = Query(multiple_read_args, partition_key, sort_key_condition,
                              multiple_read_args.limit.some)
    /\ output = NotRun

\* PutItemInput::try_from(put_item)
ConvertPutItem ==
    /\ output = NotRun
    /\ input.kind = "PutItem"
    /\ \E item \in to_item(input.item) : output' = put_item_try_from(input, item)
    /\ UNCHANGED input

\* DeleteItemInput::try_from(delete_item)
ConvertDeleteItem ==
    /\ output = NotRun
    /\ input.kind = "DeleteItem"
    /\ output' = delete_item_try_from(input)
    /\ UNCHANGED input

\* UpdateItemInput::try_from(update_item)
ConvertUpdateItem ==
    /\ output = NotRun
    /\ input.kind = "UpdateItem"
    /\ output' = update_item_try_from(input)
    /\ UNCHANGED input

\* ScanInput::try_from(scan)
ConvertScan ==
    /\ output = NotRun
    /\ input.kind = "Scan"
    /\ \E exclusive_start_key \in
            serialized_exclusive_start_key(input.multiple_read_args.exclusive_start_key) :
                output' = scan_try_from(input, exclusive_start_key)
    /\ UNCHANGED input

\* QueryInput::try_from(query)
ConvertQuery ==
    /\ output = NotRun
    /\ input.kind = "Query"
    /\ \E exclusive_start_key \in
            serialized_exclusive_start_key(input.multiple_read_args.exclusive_start_key) :
                output' = query_try_from(input, exclusive_start_key)
    /\ UNCHANGED input

NextRequest ==
    \/ ConvertPutItem
    \/ ConvertDeleteItem
    \/ ConvertUpdateItem
    \/ ConvertScan
    \/ ConvertQuery

SpecRequest == InitRequest /\ [][NextRequest]_vars

-----------------------------------------------------------------------------
(* Converting a BatchGetItem                                               *)

\* the most entries of the items of a BatchGetItem
MaxEntries == 2

\* the read arguments of an entry: two tables, each with or without a
\* consistent read and with or without a selection
SingleReadArgsSet ==
    {SingleReadArgs(consistent_read, selection, table_name) :
        consistent_read \in {None, Some(TRUE)},
        selection \in OptionOf({SelectionLeaves(<<"e", "f">>)}),
        table_name \in {"c", "j"}}

\* the keys of test_batch_get_item::full, and a key whose value does not serialize
KeyOfD == Keys(Key("d", V1), None)
KeyOfK == Keys(Key("k", V2), Some(Key("m", V1)))
KeyOfBad == Keys(Key("d", Bad), None)

\* the key lists of an entry
KeyLists ==
    {<<>>, <<KeyOfD>>, <<KeyOfK>>, <<KeyOfD, KeyOfK>>, <<KeyOfK, KeyOfBad>>}

\* the entries of an IndexMap have distinct keys
DistinctArgs(items) ==
    \A i, j \in DOMAIN items : i # j => items[i].key # items[j].key

BatchItems ==
    {items \in SeqsUpTo({Entry(args, keys) : args \in SingleReadArgsSet, keys \in KeyLists},
                        MaxEntries) : DistinctArgs(items)}

InitBatchGet ==
    /\ \E items \in BatchItems, return_consumed_capacity \in OptionOf({"Total"}) :
            input = BatchGetItem(items, return_consumed_capacity)
    /\ output = NotRun

\* BatchGetItemInput::try_from(batch_get_item)
ConvertBatchGetItem ==
    /\ output = NotRun
    /\ input.kind = "BatchGetItem"
    /\ output' = batch_get_item_try_from(input)
    /\ UNCHANGED input

NextBatchGet == ConvertBatchGetItem

SpecBatchGet == InitBatchGet /\ [][NextBatchGet]_vars

-----------------------------------------------------------------------------
(* Compiling a selection tree                                              *)

\* the longest Leaves list of the enumerated selection trees
MaxSelectionLeaves == 2

SelectionLeavesSet ==
    {SelectionLeaves(leaves) : leaves \in SeqsUpTo(Names, MaxSelectionLeaves)}

\* the Nodes of at most two entries, of distinct keys as an IndexMap has them,
\* the first child in `first` and the second in `second`
SelectionNodesOver(first, second) ==
    {SelectionNode(<<>>)}
        \cup {SelectionNode(<<Entry(key, child)>>) : key \in Names, child \in first}
        \cup {SelectionNode(<<Entry(keys[1], child), Entry(keys[2], other)>>) :
                keys \in {<<"a", "b">>, <<"b", "a">>}, child \in first, other \in second}

SelectionTreesOfDepth1 == SelectionNodesOver(SelectionLeavesSet, SelectionLeavesSet)
SelectionTreesOfDepth2 == SelectionNodesOver(SelectionTreesOfDepth1, SelectionLeavesSet)

\* the selection tree of the test node_single_level
SelectionNodeSingleLevel ==
    SelectionNode(<<Entry("a", SelectionLeaves(<<"b", "c">>)),
                    Entry("d", SelectionLeaves(<<"e", "f">>))>>)

\* the selection tree of the test node_nested
SelectionNodeNested ==
    SelectionNode(<<Entry("a", SelectionNode(<<Entry("b", SelectionLeaves(<<"c", "d">>))>>)),
                    Entry("b", SelectionLeaves(<<"e", "f">>))>>)

SelectionTrees ==
    SelectionLeavesSet \cup SelectionTreesOfDepth1 \cup SelectionTreesOfDepth2
        \cup {SelectionNodeSingleLevel, SelectionNodeNested}

InitSelection ==
    /\ input \in SelectionTrees
    /\ output = NotRun

\* ExpressionInput::from(selection_map)
CompileSelection ==
    /\ output = NotRun
    /\ output' = selection_from(input)
    /\ UNCHANGED input

NextSelection == CompileSelection

SpecSelection == InitSelection /\ [][NextSelection]_vars

-----------------------------------------------------------------------------
(* The three compilers                                                     *)

\* a tree and the compiler it is given to
Compilation(compiler, tree) == [compiler |-> compiler, tree |-> tree]

\* the root Nodes of one entry whose value is a Leaves of one level
OneChildNodes ==
    {Node(operator, <<Entry(key, leaves)>>) :
        operator \in LogicalOperators, key \in Names, leaves \in FlatTrees}

InitCompile ==
    /\ \/ \E tree \in TestTrees \cup FailingConditions \cup OneChildNodes :
                input = Compilation("condition", tree)
       \/ \E size \in 1..MaxSparseSize :
            \E tree \in NestedTreesBySize[size] \cup SparseTreesBySize[size] :
                input = Compilation("condition", tree)
       \/ \E tree \in SelectionTrees : input = Compilation("selection", tree)
       \/ \E tree \in UpdateTrees \cup FailingUpdates : input = Compilation("update", tree)
    /\ output = NotRun

\* ExpressionInput::try_from(condition_map)
CompileConditionMap ==
    /\ output = NotRun
    /\ input.compiler = "condition"
    /\ output' = condition_try_from(input.tree)
    /\ UNCHANGED input

\* ExpressionInput::from(selection_map)
CompileSelectionMap ==
    /\ output = NotRun
    /\ input.compiler = "selection"
    /\ output' = selection_from(input.tree)
    /\ UNCHANGED input

\* ExpressionInput::try_from(update_expression_map)
CompileUpdateMap ==
    /\ output = NotRun
    /\ input.compiler = "update"
    /\ output' = update_try_from(input.tree)
    /\ UNCHANGED input

NextCompile ==
    \/ CompileConditionMap
    \/ CompileSelectionMap
    \/ CompileUpdateMap

SpecCompile == InitCompile /\ [][NextCompile]_vars

-----------------------------------------------------------------------------
(* Compilations side by side, one call of a recursive compiler at a time   *)

\* the compilations that run side by side
Slots == {1, 2}
\* the number of times one tree is compiled
MaxRuns == 2

\* one call of get_expression_operation_recursive ("condition"), of
\* get_add_or_delete_expression_recursive ("add_or_delete"), of
\* get_set_expression_recursive ("set") or of get_update_expression_recursive
\* ("update"): self, keys, is_nested, the place its loop is at and its
\* `operations`
Frame(sort, self, keys, is_nested) ==
    [sort |-> sort, self |-> self, keys |-> keys, is_nested |-> is_nested,
     position |-> 1, operations |-> <<>>]

\* the call that try_from makes: keys &[], is_nested false
root_frame(compilation) ==
    Frame(compilation.compiler, compilation.tree, <<>>, FALSE)

\* the number of rounds of the loop of a call
rounds(frame) ==
    IF frame.sort = "update"
    THEN CASE frame.self.kind = "Combined" -> Len(frame.self.list)
           [] frame.self.kind = "Remove" -> 0
           [] OTHER -> 1
    ELSE IF frame.self.kind = "Leaves" THEN Len(frame.self.leaves)
    ELSE Len(frame.self.map)

\* the round of the loop compiles a leaf: the call is on a Leaves
on_leaves(frame) == frame.sort # "update" /\ frame.self.kind = "Leaves"

\* one round of the loop of a Leaves: Err, or the operation pushed and the
\* counter afterwards
compile_leaf(frame, index) ==
    CASE frame.sort = "condition" ->
            leaves_operations(<<frame.self.leaves[frame.position]>>, frame.keys, index, <<>>)
      [] frame.sort = "add_or_delete" ->
            add_or_delete_leaves(<<frame.self.leaves[frame.position]>>, frame.keys,
                                 index, <<>>)
      [] frame.sort = "set" ->
            set_leaves(<<frame.self.leaves[frame.position]>>, frame.keys, index, <<>>)

\* the call that one round of the loop of a Node, of a Combined list or of an
\* Add, Delete or Set clause makes
callee(frame) ==
    IF frame.sort = "update"
    THEN CASE frame.self.kind = "Combined" ->
                Frame("update", frame.self.list[frame.position], frame.keys, FALSE)
           [] frame.self.kind = "Set" -> Frame("set", frame.self.map, frame.keys, FALSE)
           [] OTHER -> Frame("add_or_delete", frame.self.map, frame.keys, FALSE)
    ELSE Frame(frame.sort, frame.self.map[frame.position].value,
               add_placeholder(frame.keys, frame.self.map[frame.position].key).new_keys,
               IF frame.sort = "condition" THEN nested_below(frame.self, frame.is_nested)
               ELSE FALSE)

\* what a call returns when its loop is over
returned(frame) ==
    CASE frame.sort = "condition" ->
            IF is_composite(frame.self, frame.is_nested)
            THEN [merge(operator_text(frame.self.operator), frame.operations)
                    EXCEPT !.expression = wrap(@)]
            ELSE merge(operator_text(frame.self.operator), frame.operations)
      [] frame.sort = "add_or_delete" -> merge(" ", frame.operations)
      [] frame.sort = "set" -> merge(", ", frame.operations)
      [] frame.sort = "update" /\ frame.self.kind = "Combined" -> merge(" ", frame.operations)
      [] frame.sort = "update" /\ frame.self.kind = "Add" ->
            [frame.operations[1] EXCEPT !.expression = prefixed("ADD ", @)]
      [] frame.sort = "update" /\ frame.self.kind = "Delete" ->
            [frame.operations[1] EXCEPT !.expression = prefixed("DELETE ", @)]
      [] frame.sort = "update" /\ frame.self.kind = "Set" ->
            [frame.operations[1] EXCEPT !.expression = prefixed("SET ", @)]
      [] frame.sort = "update" /\ frame.self.kind = "Remove" ->
            [get_selection_operation_recursive(frame.self.map, frame.keys)
                EXCEPT !.expression = prefixed("REMOVE ", @)]

\* the caller after the call of its round has returned `operation`: a Node
\* inserts the placeholder of the key before it pushes the operation
resumed(frame, operation) ==
    [frame EXCEPT
        !.position = @ + 1,
        !.operations =
            Append(@, IF frame.sort = "update" THEN operation
                      ELSE [operation EXCEPT !.expression_attribute_names =
                                insert(@, add_placeholder(frame.keys,
                                            frame.self.map[frame.position].key).placeholder,
                                       frame.self.map[frame.position].key)])]

\* a counter that all compilations read from the first of them
index_of_first(processes, slot) == processes[1].index

\* the counter of a compilation: the `index` of its own try_from
index_of(processes, slot) == processes[slot].index

\* a compilation that is not running: no call, results of the runs so far
Idle(results) == [status |-> "idle", stack |-> <<>>, index |-> 0, results |-> results]

\* the trees that are compiled side by side
SideBySide ==
    {Compilation("condition", tree) :
        tree \in {LeavesMultipleConditionsOr, NodeNested, InterKeyCollisionAcrossLeaves,
                  Node("And", <<Entry("a", Leaves("And", <<>>)),
                                Entry("b", Leaves("Or", <<Equals("c", "d"),
                                    KeyCondition("c", Condition("In", <<V1, V2>>))>>))>>),
                  Leaves("And", <<KeyCondition("a", Condition("Equals", <<V1>>)),
                                  KeyCondition("b", Condition("In", <<Bad, Worse>>))>>)}}
    \cup {Compilation("update", tree) :
            tree \in {CombinedSetRemoveAdd, CombinedThreeDeep, FailingCombined,
                      Set(SetNode(<<Entry("a", SetLeaves(<<<<"b", SetInput("Assign", V1)>>>>)),
                                    Entry("b", SetLeaves(<<<<"a", SetInput("ListAppend", V2)>>,
                                                           <<"b", SetInput("Assign", V1)>>>>))>>))}}

InitSideBySide ==
    /\ input \in [Slots -> SideBySide]
    /\ output = [slot \in Slots |-> Idle(<<>>)]

\* try_from is called: its counter is 0, get_..._recursive is entered
Start(slot) ==
    /\ output[slot].status = "idle"
    /\ Len(output[slot].results) < MaxRuns
    /\ output' = [output EXCEPT ![slot] =
                    [@ EXCEPT !.status = "running", !.index = 0,
                              !.stack = <<root_frame(input[slot])>>]]
    /\ UNCHANGED input

\* the effect of a round of a Leaves loop, given what compile_leaf returned:
\* `?` leaves try_from with the error, or the operation is pushed
after_leaf(process, got) ==
    IF ~got.ok THEN Idle(Append(process.results, got))
    ELSE [process EXCEPT
            !.index = got.index,
            !.stack[Len(process.stack)] =
                [@ EXCEPT !.position = @ + 1,
                          !.operations = Append(@, got.operations[1])]]

\* one round of the loop of a Leaves
CompileLeaf(slot) ==
    /\ output[slot].status = "running"
    /\ on_leaves(output[slot].stack[Len(output[slot].stack)])
    /\ output[slot].stack[Len(output[slot].stack)].position
            <= rounds(output[slot].stack[Len(output[slot].stack)])
    /\ output' = [output EXCEPT ![slot] =
                    after_leaf(@, compile_leaf(@.stack[Len(@.stack)],
                                               index_of(output, slot)))]
    /\ UNCHANGED input

\* one round of another loop begins: the recursive call is entered
Descend(slot) ==
    /\ output[slot].status = "running"
    /\ ~on_leaves(output[slot].stack[Len(output[slot].stack)])
    /\ output[slot].stack[Len(output[slot].stack)].position
            <= rounds(output[slot].stack[Len(output[slot].stack)])
    /\ output' = [output EXCEPT ![slot].stack =
                    Append(@, callee(@[Len(@)]))]
    /\ UNCHANGED input

\* the effect of the return of the innermost call with `operation`: the
\* caller's round ends, or try_from returns Ok(operation)
after_return(process, operation) ==
    IF Len(process.stack) = 1
    THEN Idle(Append(process.results, [ok |-> TRUE, operation |-> operation]))
    ELSE [process EXCEPT
            !.stack = Append(SubSeq(@, 1, Len(@) - 2),
                             resumed(@[Len(@) - 1], operation))]

\* the loop of the innermost call is over: the call returns
Return(slot) ==
    /\ output[slot].status = "running"
    /\ output[slot].stack[Len(output[slot].stack)].position
            > rounds(output[slot].stack[Len(output[slot].stack)])
    /\ output' = [output EXCEPT ![slot] =
                    after_return(@, returned(@.stack[Len(@.stack)]))]
    /\ UNCHANGED input

NextSideBySide ==
    \E slot \in Slots :
        \/ Start(slot)
        \/ CompileLeaf(slot)
        \/ Descend(slot)
        \/ Return(slot)

SpecSideBySide == InitSideBySide /\ [][NextSideBySide]_vars

-----------------------------------------------------------------------------
(* One compilation of a condition tree, one call at a time                 *)

\* a Leaves and a Node whose conditions have 0, 1, 2 and 3 operands
LeavesOfManyOperands ==
    Leaves("Or", <<KeyCondition("a", Condition("In", <<V1, V2, V1>>)),
                   KeyCondition("a", Condition("NotNull", <<>>)),
                   KeyCondition("b", Condition("Between", <<V2, V2>>)),
                   KeyCondition("a", Condition("In", <<V2>>)),
                   KeyCondition("b", Condition("BeginsWith", <<StringValue("p")>>))>>)
NodeOfManyOperands ==
    Node("And", <<Entry("a", LeavesOfManyOperands),
                  Entry("b", Node("Or", <<Entry("a", LeavesOfManyOperands)>>))>>)

InitCounter ==
    /\ \E tree \in FlatTrees \cup TestTrees
                    \cup {LeavesOfManyOperands, NodeOfManyOperands} :
            input = [slot \in {1} |-> Compilation("condition", tree)]
    /\ output = [slot \in {1} |-> Idle(<<>>)]

NextCounter ==
    \/ Start(1)
    \/ CompileLeaf(1)
    \/ Descend(1)
    \/ Return(1)

SpecCounter == InitCounter /\ [][NextCounter]_vars

-----------------------------------------------------------------------------
(* read/common.rs get_paginated_output!, Query::send and Scan::send        *)

\* i32::MAX: count and scanned_count of QueryOutput and ScanOutput are i32
I32_MAX == 2147483647

\* a + b of two i32 that are not negative overflows
add_overflows(a, b) == a > I32_MAX - b

\* a.wrapping_add(b) of two i32 that are not negative: a + b - 2^32 on overflow
wrapping_add(a, b) ==
    IF add_overflows(a, b) THEN ((a - I32_MAX) - 1) + ((b - I32_MAX) - 1) ELSE a + b

\* a page of the paginator: Ok(output)
PageOutput(items, count, scanned_count, consumed_capacity) ==
    [ok |-> TRUE, items |-> items, count |-> count, scanned_count |-> scanned_count,
     consumed_capacity |-> consumed_capacity]

\* types::ConsumedCapacity, the units as whole numbers
ConsumedCapacity(table_name, capacity_units) ==
    [table_name |-> table_name, capacity_units |-> capacity_units]

RECURSIVE aggregate_capacity(_, _, _)
\* the fold of aggregate_capacity from (cap, table)
aggregate_capacity(capacities, cap, table) ==
    IF Len(capacities) = 0 THEN ConsumedCapacity(table, Some(cap))
    ELSE aggregate_capacity(Tail(capacities),
            cap + (IF Head(capacities).capacity_units.some
                   THEN Head(capacities).capacity_units.value ELSE 0),
            IF table.some THEN table ELSE Head(capacities).table_name)

RECURSIVE fold_outputs(_, _)
\* outputs.into_iter().fold((Vec::new(), 0, 0, Vec::new()), ..) from the
\* accumulator `so_far`: the sums as a build without overflow checks computes
\* them, and whether an addition overflowed
fold_outputs(outputs, so_far) ==
    IF Len(outputs) = 0 THEN so_far
    ELSE LET output_ == Head(outputs)
         IN  fold_outputs(Tail(outputs),
                [items |-> IF output_.items.some
                           THEN so_far.items \o output_.items.value ELSE so_far.items,
                 count |-> wrapping_add(so_far.count, output_.count),
                 scanned |-> wrapping_add(so_far.scanned, output_.scanned_count),
                 caps |-> IF output_.consumed_capacity.some
                          THEN Append(so_far.caps, output_.consumed_capacity.value)
                          ELSE so_far.caps,
                 overflowed |-> \/ so_far.overflowed
                                \/ add_overflows(so_far.count, output_.count)
                                \/ add_overflows(so_far.scanned, output_.scanned_count)])

\* what get_paginated_output! returns once the paginator is exhausted: the
\* built output; an addition that overflows panics in a build with overflow
\* checks and wraps in a build without
paginated_output(outputs) ==
    LET folded == fold_outputs(outputs, [items |-> <<>>, count |-> 0, scanned |-> 0,
                                         caps |-> <<>>, overflowed |-> FALSE])
        built == [ok |-> TRUE,
                  output |-> [items |-> Some(folded.items),
                              count |-> Some(folded.count),
                              scanned_count |-> Some(folded.scanned),
                              consumed_capacity |->
                                Some(aggregate_capacity(folded.caps, 0, None))]]
    IN  IF folded.overflowed
        THEN {built, [ok |-> FALSE, panic |-> "attempt to add with overflow"]}
        ELSE {built}

\* the longest run of pages of a paginator
MaxPages == 3

\* the pages a paginator yields: outputs with items, an output of a count
\* alone (Select::Count), and errors
Pages ==
    {PageOutput(Some(<<>>), 0, 1, None),
     PageOutput(Some(<<"x">>), 1, 1, Some(ConsumedCapacity(Some("table"), Some(1)))),
     PageOutput(Some(<<"y", "z">>), 2, 3, Some(ConsumedCapacity(None, None))),
     PageOutput(None, 1073741824, 1073741824, Some(ConsumedCapacity(Some("table"), Some(2)))),
     Err("throttled"), Err("timeout")}

\* a Query or a Scan whose conversion succeeds or fails, and the pages the
\* paginator of its request yields
InitSend ==
    /\ \E kind \in {"Query", "Scan"}, converts \in BOOLEAN,
          pages \in SeqsUpTo(Pages, MaxPages) :
            input = [kind |-> kind, converts |-> converts, pages |-> pages]
    /\ output = [status |-> "called", requested |-> 0, outputs |-> <<>>]

\* self.try_into().map_err(BuildError::other)?, the builder and
\* into_paginator().send()
BuildRequest ==
    /\ output.status = "called"
    /\ output' = IF input.converts
                 THEN [output EXCEPT !.status = "paging"]
                 ELSE [status |-> "returned", requested |-> 0, outputs |-> <<>>,
                       result |-> Err("build")]
    /\ UNCHANGED input

\* paginator.next().await is Some(page): outputs.push(page?)
NextPage ==
    /\ output.status = "paging"
    /\ output.requested < Len(input.pages)
    /\ output' = IF input.pages[output.requested + 1].ok
                 THEN [output EXCEPT !.requested = @ + 1,
                                     !.outputs = Append(@, input.pages[output.requested + 1])]
                 ELSE [status |-> "returned", requested |-> output.requested + 1,
                       outputs |-> output.outputs,
                       result |-> input.pages[output.requested + 1]]
    /\ UNCHANGED input

\* paginator.next().await is None: the fold and Ok(output)
Exhausted ==
    /\ output.status = "paging"
    /\ output.requested = Len(input.pages)
    /\ \E result \in paginated_output(output.outputs) :
            output' = [status |-> "returned", requested |-> output.requested,
                       outputs |-> output.outputs, result |-> result]
    /\ UNCHANGED input

NextSend ==
    \/ BuildRequest
    \/ NextPage
    \/ Exhausted

SpecSend == InitSend /\ [][NextSend]_vars

-----------------------------------------------------------------------------
(* Merging atoms                                                           *)

\* the longest list of atoms that is merged
MaxItems == 2

\* the operator texts the compilers merge with: those of the two logical
\* operators, that of selections and SET leaves, that of ADD, DELETE and Combined
OperatorTexts == {operator_text("And"), operator_text("Or"), ", ", " "}

\* ExpressionInput { expression, expression_attribute_names, expression_attribute_values }
ExpressionInput(expression, names, values) ==
    [expression |-> expression,
     expression_attribute_names |-> names,
     expression_attribute_values |-> values]

\* the atoms of the enumerated lists: the text empty, of one leaf, of two leaves
Atoms ==
    {ExpressionInput(expression, names, values) :
        expression \in {<<>>, <<"#a = :a_eq0">>, <<"#a = :a_eq0", " AND ", "#b = :b_eq1">>},
        names \in {EmptyMap, insert(EmptyMap, "#a", "a")},
        values \in {EmptyMap,
                    insert(EmptyMap, ":a_eq0", to_attribute_value(V1)),
                    insert(EmptyMap, ":a_eq0", to_attribute_value(V2))}}

\* the tables of a caller of merge_into: absent, empty, holding a key the atoms
\* define, holding a key they do not define
CallerNames ==
    OptionOf({EmptyMap, insert(EmptyMap, "#a", "k"), insert(EmptyMap, "#c", "c"),
              insert(insert(EmptyMap, "#a", "k"), "#c", "c")})
CallerValues ==
    OptionOf({EmptyMap,
              insert(EmptyMap, ":a_eq0", to_attribute_value(NumberValue(1))),
              insert(insert(EmptyMap, ":a_eq0", to_attribute_value(NumberValue(1))),
                     ":c_eq0", to_attribute_value(V1))})

InitAtoms ==
    /\ \/ \E operator \in OperatorTexts, items \in SeqsUpTo(Atoms, MaxItems) :
                input = [kind |-> "merge", operator |-> operator, items |-> items]
       \/ \E self \in Atoms, names \in CallerNames, values \in CallerValues :
                input = [kind |-> "merge_into", self |-> self,
                         names |-> names, values |-> values]
    /\ output = NotRun

\* ExpressionInput::merge(operator, items)
Merge ==
    /\ output = NotRun
    /\ input.kind = "merge"
    /\ output' = merge(input.operator, input.items)
    /\ UNCHANGED input

\* self.merge_into(&mut names, &mut values)
MergeInto ==
    /\ output = NotRun
    /\ input.kind = "merge_into"
    /\ output' = merge_into(input.self, input.names, input.values)
    /\ UNCHANGED input

NextAtoms ==
    \/ Merge
    \/ MergeInto

SpecAtoms == InitAtoms /\ [][NextAtoms]_vars

\* the longest list of atoms whose texts are merged
MaxMerged == 4

\* atoms that differ in their text: none, one leaf, an enclosed pair of leaves
TextAtoms ==
    {DefaultExpressionInput,
     ExpressionInput(<<"#a = :a_eq0">>, insert(EmptyMap, "#a", "a"),
                     insert(EmptyMap, ":a_eq0", to_attribute_value(V1))),
     ExpressionInput(<<"(", "#b = :b_eq0", " OR ", "#c = :c_eq1", ")">>,
                     insert(insert(EmptyMap, "#b", "b"), "#c", "c"),
                     insert(insert(EmptyMap, ":b_eq0", to_attribute_value(V1)),
                            ":c_eq1", to_attribute_value(V2)))}

InitMerge ==
    /\ \E operator \in OperatorTexts, items \in SeqsUpTo(TextAtoms, MaxMerged) :
            input = [kind |-> "merge", operator |-> operator, items |-> items]
    /\ output = NotRun

SpecMerge == InitMerge /\ [][Merge]_vars

-----------------------------------------------------------------------------
(* What the claims speak of, read off the input tree and the output         *)

\* the conversion has run and returned Ok
Compiled == output # NotRun /\ output.ok

RECURSIVE Sum(_)
Sum(numbers) == IF Len(numbers) = 0 THEN 0 ELSE Head(numbers) + Sum(Tail(numbers))

RECURSIVE OperandCount(_)
\* the number of operands of the conditions of a tree: 1 for a condition of one
\* operand, 2 for Between, the list length for In, 0 for Null and NotNull
OperandCount(tree) ==
    IF tree.kind = "Leaves"
    THEN Sum([i \in DOMAIN tree.leaves |-> Len(tree.leaves[i].condition.operands)])
    ELSE Sum([i \in DOMAIN tree.map |-> OperandCount(tree.map[i].value)])

-----------------------------------------------------------------------------
(* C1: for every condition tree compiled from the root, the value           *)
(* placeholders allocated during the pass are pairwise distinct: the values *)
(* map holds exactly one entry per operand of the tree (1 per condition of  *)
(* one operand, 2 per Between, one per element of In, 0 for Null and        *)
(* NotNull), also when one attribute name occurs several times.             *)
C1_OneValuePerOperand ==
    Compiled =>
        Cardinality(DOMAIN output.operation.expression_attribute_values)
            = OperandCount(input)

\* the same name with the same operator in two subtrees, and in one Leaves
C1_Witness ==
    /\ Compiled
    /\ input \in {InterKeyCollisionAcrossLeaves, LeavesSameKeyOrEquals}
    /\ DOMAIN output.operation.expression_attribute_values = {":a_eq0", ":a_eq1"}

-----------------------------------------------------------------------------
\* a Query with a filter condition has been converted
QueryWithFilterConverted ==
    /\ Compiled
    /\ input.kind = "Query"
    /\ input.multiple_read_args.condition.some

\* the operands of the key condition of a Query: the partition key's value and
\* the operands of the sort key condition
KeyOperands(query) ==
    <<query.partition_key.value>>
        \o (IF query.sort_key_condition.some
            THEN query.sort_key_condition.value.condition.operands
            ELSE <<>>)

(* C2: when a Query carries a filter condition and a key condition, the two *)
(* compiled atoms are merged into the request's tables without collision of *)
(* value placeholders: the values table holds one entry for every operand   *)
(* of the filter and one for every operand of the key condition, each bound *)
(* to its own value.                                                        *)
C2_QueryMergeWithoutCollision ==
    QueryWithFilterConverted =>
        LET filter == condition_try_from(input.multiple_read_args.condition.value).operation
            key_condition ==
                get_key_condition_expression(input.partition_key,
                                             input.sort_key_condition).operation
            values == output.operation.multiple_read_operation.expression_attribute_values.value
        IN  /\ Cardinality(DOMAIN values)
                    = OperandCount(input.multiple_read_args.condition.value)
                        + Len(KeyOperands(input))
            /\ \A placeholder \in DOMAIN filter.expression_attribute_values :
                    values[placeholder] = filter.expression_attribute_values[placeholder]
            /\ \A placeholder \in DOMAIN key_condition.expression_attribute_values :
                    values[placeholder]
                        = key_condition.expression_attribute_values[placeholder]

-----------------------------------------------------------------------------
(* The reading of an expression text with the query language's precedence:  *)
(*     or   ::= and (" OR " and)*                                           *)
(*     and  ::= prim (" AND " prim)*                                        *)
(*     prim ::= "(" or ")" | leaf fragment                                  *)
(* The text is the sequence of its lexemes; the k-th leaf fragment of the   *)
(* text has the truth value assignment[k].  A reading is the value, the     *)
(* lexemes left and the number of leaf fragments read.                      *)

RECURSIVE ReadOr(_, _, _)
RECURSIVE ReadOrRest(_, _)
RECURSIVE ReadAnd(_, _, _)
RECURSIVE ReadAndRest(_, _)

ReadPrim(lexemes, count, assignment) ==
    IF Head(lexemes) = "("
    THEN LET inner == ReadOr(Tail(lexemes), count, assignment)
         IN  [inner EXCEPT !.rest = Tail(@)]
    ELSE [value |-> assignment[count + 1], rest |-> Tail(lexemes), count |-> count + 1]

ReadAndRest(left, assignment) ==
    IF Len(left.rest) > 0 /\ Head(left.rest) = " AND "
    THEN LET right == ReadPrim(Tail(left.rest), left.count, assignment)
         IN  ReadAndRest([right EXCEPT !.value = left.value /\ @], assignment)
    ELSE left

ReadAnd(lexemes, count, assignment) ==
    ReadAndRest(ReadPrim(lexemes, count, assignment), assignment)

ReadOrRest(left, assignment) ==
    IF Len(left.rest) > 0 /\ Head(left.rest) = " OR "
    THEN LET right == ReadAnd(Tail(left.rest), left.count, assignment)
         IN  ReadOrRest([right EXCEPT !.value = left.value \/ @], assignment)
    ELSE left

ReadOr(lexemes, count, assignment) ==
    ReadOrRest(ReadAnd(lexemes, count, assignment), assignment)

\* the truth value of an expression text
TextValue(expression, assignment) == ReadOr(expression, 0, assignment).value

\* the operands combined with an operator
Combine(operator, operands) ==
    IF operator = "And" THEN \A i \in DOMAIN operands : operands[i]
    ELSE \E i \in DOMAIN operands : operands[i]

RECURSIVE LeafCount(_)
\* the number of conditions of a tree
LeafCount(tree) ==
    IF tree.kind = "Leaves" THEN Len(tree.leaves)
    ELSE Sum([i \in DOMAIN tree.map |-> LeafCount(tree.map[i].value)])

RECURSIVE TreeValue(_, _, _)
\* the truth value of a tree whose conditions are numbered from count + 1 on
\* in insertion order: each Leaves and Node combines its children with its
\* own operator
TreeValue(tree, count, assignment) ==
    IF tree.kind = "Leaves"
    THEN Combine(tree.operator, [i \in DOMAIN tree.leaves |-> assignment[count + i]])
    ELSE Combine(tree.operator,
            [i \in DOMAIN tree.map |->
                TreeValue(tree.map[i].value,
                          count + Sum([j \in 1..(i - 1) |-> LeafCount(tree.map[j].value)]),
                          assignment)])

RECURSIVE NonEmpty(_)
\* every Leaves and every Node of the tree has a child
NonEmpty(tree) ==
    IF tree.kind = "Leaves" THEN Len(tree.leaves) > 0
    ELSE /\ Len(tree.map) > 0
         /\ \A i \in DOMAIN tree.map : NonEmpty(tree.map[i].value)

(* C4: for every condition tree, the compiled expression text, read with    *)
(* the query language's precedence (parentheses group, AND binds tighter    *)
(* than OR), denotes the same boolean function of its leaf fragments as the *)
(* tree, for every assignment of truth values to the leaves.                *)
C4_TextDenotesTree ==
    (Compiled /\ NonEmpty(input)) =>
        \A assignment \in [1..LeafCount(input) -> BOOLEAN] :
            TextValue(output.operation.expression, assignment)
                = TreeValue(input, 0, assignment)

-----------------------------------------------------------------------------
RECURSIVE ParenDepth(_, _)
\* the number of "(" less the number of ")" among the first n lexemes
ParenDepth(expression, n) ==
    IF n = 0 THEN 0
    ELSE ParenDepth(expression, n - 1)
            + (CASE expression[n] = "(" -> 1 [] expression[n] = ")" -> -1 [] OTHER -> 0)

\* the whole expression is enclosed in parentheses: it starts with a "(" that
\* its last lexeme closes
Enclosed(expression) ==
    /\ Len(expression) >= 2
    /\ expression[1] = "("
    /\ expression[Len(expression)] = ")"
    /\ \A n \in 1..(Len(expression) - 1) : ParenDepth(expression, n) >= 1

(* C5: compiling a condition tree from the root never encloses the whole    *)
(* result in parentheses, whatever the shape of the tree: a root Leaves of  *)
(* one condition yields the bare fragment and a root Leaves of several      *)
(* conditions yields them joined by the operator, with no parenthesis       *)
(* around them.                                                             *)
C5_RootNeverEnclosed ==
    Compiled =>
        /\ ~Enclosed(output.operation.expression)
        /\ input.kind = "Leaves" =>
                \A n \in DOMAIN output.operation.expression :
                    output.operation.expression[n] \notin {"(", ")"}
        /\ input = LeavesSingleCondition =>
                Text(output.operation.expression) = "#a = :a_eq0"

-----------------------------------------------------------------------------
\* a PutItem, a DeleteItem or a Scan whose condition is the root
\* Leaves(AND, [c Equals "d"]) has been converted
LeafConditionConverted ==
    /\ Compiled
    /\ \/ /\ input.kind \in {"PutItem", "DeleteItem"}
          /\ input.write_args.condition = Some(LeavesEqualsC)
       \/ /\ input.kind = "Scan"
          /\ input.multiple_read_args.condition = Some(LeavesEqualsC)

\* the part of a converted request that holds the condition: its expression
\* and the two tables
ConditionPart ==
    IF input.kind = "Scan"
    THEN [expression |-> output.operation.multiple_read_operation.filter_expression,
          names |-> output.operation.multiple_read_operation.expression_attribute_names,
          values |-> output.operation.multiple_read_operation.expression_attribute_values]
    ELSE [expression |-> output.operation.write_operation.condition_expression,
          names |-> output.operation.write_operation.expression_attribute_names,
          values |-> output.operation.write_operation.expression_attribute_values]

\* the tables of the condition Leaves(AND, [c Equals "d"]), a selection's names
\* apart
LeafConditionTables ==
    /\ ConditionPart.names.some
    /\ "#c" \in DOMAIN ConditionPart.names.value
    /\ ConditionPart.names.value["#c"] = "c"
    /\ input.kind = "Scan" \/ DOMAIN ConditionPart.names.value = {"#c"}
    /\ ConditionPart.values = Some([placeholder \in {":c_eq0"} |-> [S |-> "d"]])

-----------------------------------------------------------------------------
\* the invocations of get_expression_operation_recursive of the compile of the
\* input, one for each Leaves and each Node of the tree that was reached
Calls == get_expression_operation_recursive(input, <<>>, 0, FALSE).calls

\* the invocation for the subtree at the path `keys`: the keys of an IndexMap
\* are distinct, so that a path names one subtree
CallAt(keys) == CHOOSE call \in Range(Calls) : call.keys = keys

RECURSIVE HasWideAncestor(_, _)
\* some Node on the path `keys` (name placeholders) from `tree` down to a
\* subtree, that subtree apart, has more than one child
HasWideAncestor(tree, keys) ==
    IF Len(keys) = 0 THEN FALSE
    ELSE \/ Len(tree.map) > 1
         \/ \E i \in DOMAIN tree.map :
                /\ "#" \o tree.map[i].key = Head(keys)
                /\ HasWideAncestor(tree.map[i].value, Tail(keys))

(* C7: the merged text of a Leaves is wrapped in parentheses if and only if *)
(* the Leaves holds more than one condition and at least one ancestor Node  *)
(* on its path from the root has more than one child.                       *)
C7_LeavesWrapped ==
    Compiled =>
        \A call \in Range(Calls) :
            call.self.kind = "Leaves" =>
                (Enclosed(call.expression)
                    <=> /\ Len(call.self.leaves) > 1
                        /\ HasWideAncestor(input, call.keys))

\* a Leaves of two conditions, wrapped: its parent has one child, the root two
C7_Witness ==
    /\ Compiled
    /\ input = NodeNested
    /\ Text(CallAt(<<"#a", "#b">>).expression)
            = "(#a.#b.#c = :c_eq0 AND #a.#b.#e = :e_eq1)"
    /\ Len(input.map[1].value.map) = 1
    /\ Len(input.map) = 2

\* the texts of the direct children of the Node of a call
ChildTexts(call) ==
    [i \in DOMAIN call.self.map |->
        CallAt(Append(call.keys, "#" \o call.self.map[i].key)).expression]

RECURSIVE JoinNonEmpty(_, _)
\* the non-empty texts joined by the operator text
JoinNonEmpty(texts, operator) ==
    IF Len(texts) = 0 THEN <<>>
    ELSE LET rest == JoinNonEmpty(Tail(texts), operator)
         IN  IF Len(Head(texts)) = 0 THEN rest
             ELSE IF Len(rest) = 0 THEN Head(texts)
             ELSE Head(texts) \o <<operator>> \o rest

\* the text a subtree's invocation returned is its merged text in parentheses
Wrapped(call) ==
    IF call.self.kind = "Leaves" THEN Enclosed(call.expression)
    ELSE call.expression
            = <<"(">> \o JoinNonEmpty(ChildTexts(call), operator_text(call.self.operator))
                \o <<")">>

(* C8: the merged text of a Node is wrapped in parentheses if and only if   *)
(* the Node was entered with is_nested true, it has more than one child and *)
(* none of its direct children is wrapped itself; the decision uses the     *)
(* is_nested value the Node was entered with (true iff an ancestor Node has *)
(* more than one child), so that a wrapped Node never has a wrapped direct  *)
(* child.                                                                   *)
C8_NodeWrapped ==
    Compiled =>
        \A call \in Range(Calls) :
            call.self.kind = "Node" =>
                /\ call.is_nested = HasWideAncestor(input, call.keys)
                /\ Wrapped(call)
                    <=> /\ call.is_nested
                        /\ Len(call.self.map) > 1
                        /\ \A i \in DOMAIN call.self.map :
                                ~Wrapped(CallAt(Append(call.keys,
                                                       "#" \o call.self.map[i].key)))
                /\ ~Wrapped(call) =>
                        call.expression
                            = JoinNonEmpty(ChildTexts(call),
                                           operator_text(call.self.operator))

\* a Node of two Leaves of one condition each, below a Node of two children:
\* wrapped
C8_Witness ==
    /\ Compiled
    /\ input.kind = "Node"
    /\ Len(input.map) = 2
    /\ input.map[1].value.kind = "Node"
    /\ Len(input.map[1].value.map) = 2
    /\ Wrapped(CallAt(<<"#" \o input.map[1].key>>))
    /\ \A i \in 1..2 : input.map[1].value.map[i].value.kind = "Leaves"

-----------------------------------------------------------------------------
(* The table of fragments and tags of the 13 variants of Condition          *)

\* the tag of a variant that has operands
TagOf(variant) ==
    CASE variant = "BeginsWith" -> "begins_with"
      [] variant = "Between" -> "between"
      [] variant = "Contains" -> "contains"
      [] variant = "Equals" -> "eq"
      [] variant = "GreaterThan" -> "gt"
      [] variant = "GreaterThanOrEqual" -> "gte"
      [] variant = "In" -> "in"
      [] variant = "LessThan" -> "lt"
      [] variant = "LessThanOrEqual" -> "lte"
      [] variant = "NotContains" -> "not_contains"
      [] variant = "NotEqual" -> "ne"

\* the fragment of a variant over a path and its value placeholders
FragmentOf(variant, path, ph) ==
    CASE variant = "BeginsWith" -> "begins_with(" \o path \o ", " \o ph[1] \o ")"
      [] variant = "Between" -> path \o " BETWEEN " \o ph[1] \o " AND " \o ph[2]
      [] variant = "Contains" -> "contains(" \o path \o ", " \o ph[1] \o ")"
      [] variant = "Equals" -> path \o " = " \o ph[1]
      [] variant = "GreaterThan" -> path \o " > " \o ph[1]
      [] variant = "GreaterThanOrEqual" -> path \o " >= " \o ph[1]
      [] variant = "In" -> path \o " IN (" \o join(ph, ", ") \o ")"
      [] variant = "LessThan" -> path \o " < " \o ph[1]
      [] variant = "LessThanOrEqual" -> path \o " <= " \o ph[1]
      [] variant = "NotContains" -> "NOT contains(" \o path \o ", " \o ph[1] \o ")"
      [] variant = "NotEqual" -> path \o " <> " \o ph[1]
      [] variant = "NotNull" -> "attribute_exists(" \o path \o ")"
      [] variant = "Null" -> "attribute_not_exists(" \o path \o ")"

\* the value placeholders of a condition of `count` operands on the segment
\* `name` that is compiled at `index`, of the form
\* ':' + segment + '_' + tag + index, those of In followed by '_' and the
\* position of the element in the list if `in_suffix`
PlaceholdersOf(variant, name, index, count, in_suffix) ==
    [i \in 1..count |->
        ":" \o name \o "_" \o TagOf(variant) \o ToString(index + i - 1)
            \o (IF in_suffix /\ variant = "In" THEN "_" \o ToString(i - 1) ELSE "")]

RECURSIVE LeafList(_, _)
\* the conditions of a tree in insertion order (depth-first, left to right),
\* each with the name placeholders of the keys of its ancestor Nodes from the
\* root down
LeafList(tree, path) ==
    IF tree.kind = "Leaves"
    THEN [i \in DOMAIN tree.leaves |->
            [name |-> tree.leaves[i].name,
             condition |-> tree.leaves[i].condition,
             path |-> path]]
    ELSE Concat([i \in DOMAIN tree.map |->
            LeafList(tree.map[i].value, Append(path, "#" \o tree.map[i].key))])

\* the number of operands of the conditions before the k-th
OperandsBefore(leaves, k) ==
    Sum([i \in 1..(k - 1) |-> Len(leaves[i].condition.operands)])

\* the fragments a tree's conditions compile to, in insertion order
ExpectedFragments(tree) ==
    LET leaves == LeafList(tree, <<>>)
    IN  [k \in DOMAIN leaves |->
            FragmentOf(leaves[k].condition.variant,
                       join(Append(leaves[k].path, "#" \o leaves[k].name), "."),
                       PlaceholdersOf(leaves[k].condition.variant, leaves[k].name,
                                      OperandsBefore(leaves, k),
                                      Len(leaves[k].condition.operands), TRUE))]

IsFragment(lexeme) == lexeme \notin {"(", ")", " AND ", " OR "}

\* the leaf fragments of an expression, in the order of the text
Fragments(expression) == SelectSeq(expression, IsFragment)

(* C9: in a compiled condition each leaf's fragment addresses the           *)
(* '.'-joined name placeholders of all ancestor Node keys from the root     *)
(* down, followed by the leaf's own placeholder; the fragments appear in    *)
(* insertion order (depth-first, left to right) and the indices of the      *)
(* value placeholders increase in that order from 0.  The tree of the test  *)
(* node_nested compiles to '(#a.#b.#c = :c_eq0 AND #a.#b.#e = :e_eq1) AND   *)
(* (#b.#g = :g_eq2 OR #b.#i = :i_eq3)'.                                     *)
C9_PathsAndOrder ==
    Compiled =>
        /\ Fragments(output.operation.expression) = ExpectedFragments(input)
        /\ input = NodeNested =>
                Text(output.operation.expression)
                    = "(#a.#b.#c = :c_eq0 AND #a.#b.#e = :e_eq1) AND "
                        \o "(#b.#g = :g_eq2 OR #b.#i = :i_eq3)"

\* the tree of node_nested, compiled: four fragments, the first below two Nodes
C9_Witness ==
    /\ Compiled
    /\ input = NodeNested
    /\ Len(Fragments(output.operation.expression)) = 4
    /\ Fragments(output.operation.expression)[1] = "#a.#b.#c = :c_eq0"
    /\ Fragments(output.operation.expression)[4] = "#b.#i = :i_eq3"

\* the fragments and the value placeholders of the conditions of a root Leaves
\* are those of the table
TableHolds(in_suffix) ==
    LET leaves == input.leaves
        expected(k) ==
            PlaceholdersOf(leaves[k].condition.variant, leaves[k].name,
                           OperandsBefore(leaves, k),
                           Len(leaves[k].condition.operands), in_suffix)
    IN  /\ Fragments(output.operation.expression)
                = [k \in DOMAIN leaves |->
                        FragmentOf(leaves[k].condition.variant,
                                   "#" \o leaves[k].name, expected(k))]
        /\ DOMAIN output.operation.expression_attribute_values
                = UNION {Range(expected(k)) : k \in DOMAIN leaves}

(* C10 as stated: each of the 13 variants of Condition compiles to its      *)
(* fixed fragment and placeholder tag, and every value placeholder has the  *)
(* form ':' + leaf segment + '_' + tag + index.                             *)
C10_FragmentsOfOneForm ==
    (Compiled /\ input.kind = "Leaves") => TableHolds(FALSE)

(* C10, amended: each of the 13 variants of Condition compiles to its fixed *)
(* fragment and placeholder tag; every value placeholder has the form       *)
(* ':' + leaf segment + '_' + tag + index, those of In followed by '_' and  *)
(* the position of the element in the list (':a_in0_0', ':a_in1_1').        *)
C10_Fragments ==
    (Compiled /\ input.kind = "Leaves") => TableHolds(TRUE)

\* a root Leaves of an In of two elements and a LessThanOrEqual, compiled
C10_Witness ==
    /\ Compiled
    /\ input.kind = "Leaves"
    /\ Len(input.leaves) = 2
    /\ input.leaves[1].condition.variant = "In"
    /\ Len(input.leaves[1].condition.operands) = 2
    /\ input.leaves[2].condition.variant = "LessThanOrEqual"
    /\ input.leaves[1].name = "a"
    /\ input.leaves[2].name = "b"
    /\ Text(output.operation.expression)
            = "#a IN (:a_in0_0, :a_in1_1) AND #b <= :b_lte2"

-----------------------------------------------------------------------------
RECURSIVE ValueLeaves(_)
\* the value-bearing leaves of an update tree in left-to-right traversal order,
\* each with the prefix of its clause: the leaves of REMOVE bear no value
ValueLeaves(tree) ==
    CASE tree.kind = "Combined" ->
            Concat([i \in DOMAIN tree.list |-> ValueLeaves(tree.list[i])])
      [] tree.kind = "Remove" -> <<>>
      [] tree.kind \in {"Add", "Delete"} ->
            ValueLeaves([kind |-> "AddOrDeleteMap", map |-> tree.map])
      [] tree.kind = "Set" -> ValueLeaves([kind |-> "SetMap", map |-> tree.map])
      [] tree.kind = "AddOrDeleteMap" ->
            IF tree.map.kind = "Leaves"
            THEN [i \in DOMAIN tree.map.leaves |->
                    [prefix |-> ":add_or_delete", value |-> tree.map.leaves[i][2]]]
            ELSE Concat([i \in DOMAIN tree.map.map |->
                    ValueLeaves([tree EXCEPT !.map = tree.map.map[i].value])])
      [] tree.kind = "SetMap" ->
            IF tree.map.kind = "Leaves"
            THEN [i \in DOMAIN tree.map.leaves |->
                    [prefix |-> ":set", value |-> tree.map.leaves[i][2].value]]
            ELSE Concat([i \in DOMAIN tree.map.map |->
                    ValueLeaves([tree EXCEPT !.map = tree.map.map[i].value])])

\* the placeholder of the k-th value-bearing leaf of an update tree
UpdatePlaceholder(leaves, k) == leaves[k].prefix \o ToString(k - 1)

(* C3: for every update tree, Combined lists in Combined lists included, one *)
(* counter is shared by all clauses and never reset: the k-th value-bearing  *)
(* leaf in left-to-right order is bound under ':set<k-1>' (a SET leaf) or    *)
(* ':add_or_delete<k-1>' (an ADD or DELETE leaf), the leaves of REMOVE take  *)
(* no index and add no value, and the value placeholders are pairwise        *)
(* distinct: the values map has exactly one entry per value-bearing leaf.    *)
C3_SharedUpdateCounter ==
    Compiled =>
        LET leaves == ValueLeaves(input)
            values == output.operation.expression_attribute_values
        IN  /\ DOMAIN values = {UpdatePlaceholder(leaves, k) : k \in DOMAIN leaves}
            /\ Cardinality(DOMAIN values) = Len(leaves)
            /\ \A k \in DOMAIN leaves :
                    /\ UpdatePlaceholder(leaves, k) \in DOMAIN values
                    /\ values[UpdatePlaceholder(leaves, k)]
                            = to_attribute_value(leaves[k].value)

\* Combined([Set, Remove, Add]) with one leaf each uses ':set0' and
\* ':add_or_delete1'
C3_Witness ==
    /\ Compiled
    /\ input = CombinedSetRemoveAdd
    /\ Text(output.operation.expression)
            = "SET #attr1 = :set0 REMOVE #oldAttr ADD #count :add_or_delete1"
    /\ DOMAIN output.operation.expression_attribute_values = {":set0", ":add_or_delete1"}

-----------------------------------------------------------------------------
(* C11: merging an empty list of atoms yields the empty atom: the empty    *)
(* expression, an empty names map and an empty values map; merging a list  *)
(* of a single atom yields that atom unchanged; both for every operator    *)
(* text.                                                                   *)
C11_MergeOfNoneAndOfOne ==
    (input.kind = "merge" /\ output # NotRun) =>
        /\ Len(input.items) = 0 =>
                /\ Text(output.expression) = ""
                /\ output.expression_attribute_names = EmptyMap
                /\ output.expression_attribute_values = EmptyMap
        /\ Len(input.items) = 1 =>
                /\ output = input.items[1]
                /\ Text(output.expression) = Text(input.items[1].expression)

\* a single atom of two leaves and non-empty maps was merged with ", " and
\* came back unchanged
C11_Witness ==
    /\ input.kind = "merge"
    /\ output # NotRun
    /\ input.operator = ", "
    /\ Len(input.items) = 1
    /\ Len(input.items[1].expression) = 3
    /\ input.items[1].expression_attribute_names # EmptyMap
    /\ input.items[1].expression_attribute_values # EmptyMap
    /\ output = input.items[1]

-----------------------------------------------------------------------------
(* C12: merge_into leaves both of the caller's optional maps present; an   *)
(* absent map becomes the atom's map, even an empty one; a present map     *)
(* keeps every entry whose key the atom does not define and takes every    *)
(* entry of the atom, the atom's entry replacing one of the same key; the  *)
(* returned text is the atom's expression.                                 *)
C12_MergeIntoFrame ==
    (input.kind = "merge_into" /\ output # NotRun) =>
        LET atom_names == input.self.expression_attribute_names
            atom_values == input.self.expression_attribute_values
        IN  /\ output.names.some
            /\ output.values.some
            /\ ~input.names.some => output.names.value = atom_names
            /\ ~input.values.some => output.values.value = atom_values
            /\ input.names.some =>
                    /\ DOMAIN output.names.value
                            = DOMAIN input.names.value \cup DOMAIN atom_names
                    /\ \A k \in DOMAIN input.names.value \ DOMAIN atom_names :
                            output.names.value[k] = input.names.value[k]
            /\ input.values.some =>
                    /\ DOMAIN output.values.value
                            = DOMAIN input.values.value \cup DOMAIN atom_values
                    /\ \A k \in DOMAIN input.values.value \ DOMAIN atom_values :
                            output.values.value[k] = input.values.value[k]
            /\ \A k \in DOMAIN atom_names : output.names.value[k] = atom_names[k]
            /\ \A k \in DOMAIN atom_values : output.values.value[k] = atom_values[k]
            /\ Text(output.expression) = Text(input.self.expression)
            /\ output.expression = input.self.expression

\* the atom and the caller's maps define '#a' and ':a_eq0' differently, the
\* caller's maps hold '#c' and ':c_eq0' too: the atom's entries won and the
\* other entries were kept
C12_Witness ==
    /\ input.kind = "merge_into"
    /\ output # NotRun
    /\ input.names.some
    /\ input.values.some
    /\ DOMAIN input.names.value = {"#a", "#c"}
    /\ DOMAIN input.values.value = {":a_eq0", ":c_eq0"}
    /\ "#a" \in DOMAIN input.self.expression_attribute_names
    /\ ":a_eq0" \in DOMAIN input.self.expression_attribute_values
    /\ input.names.value["#a"] # input.self.expression_attribute_names["#a"]
    /\ input.values.value[":a_eq0"] # input.self.expression_attribute_values[":a_eq0"]
    /\ output.names.value["#a"] = "a"
    /\ output.names.value["#c"] = "c"
    /\ output.values.value[":c_eq0"] = to_attribute_value(V1)

\* the caller's maps were absent and the atom's maps empty: both are present
\* and empty afterwards
C12_WitnessAbsent ==
    /\ input.kind = "merge_into"
    /\ output # NotRun
    /\ ~input.names.some
    /\ ~input.values.some
    /\ output.names = Some(EmptyMap)
    /\ output.values = Some(EmptyMap)

-----------------------------------------------------------------------------
RECURSIVE PathText(_)
\* the segments of a path, each behind '#', joined with '.'
PathText(segments) ==
    IF Len(segments) = 0 THEN ""
    ELSE IF Len(segments) = 1 THEN "#" \o segments[1]
    ELSE "#" \o segments[1] \o "." \o PathText(Tail(segments))

RECURSIVE SelectionPaths(_, _)
\* the paths of the leaves of a selection tree below the segments `above`, in
\* insertion order, depth first
SelectionPaths(tree, above) ==
    IF tree.kind = "Leaves"
    THEN [i \in DOMAIN tree.names |-> Append(above, tree.names[i])]
    ELSE Concat([i \in DOMAIN tree.map |->
                    SelectionPaths(tree.map[i].value, Append(above, tree.map[i].key))])

RECURSIVE Listed(_)
\* the texts of a list, separated by ', '
Listed(texts) ==
    IF Len(texts) = 0 THEN ""
    ELSE IF Len(texts) = 1 THEN texts[1]
    ELSE texts[1] \o ", " \o Listed(Tail(texts))

(* C13: compiling a selection tree yields an atom (there is no failure), whose *)
(* values map is empty, whose text has no parenthesis that the compiler     *)
(* wrote (no lexeme of it is one), and whose text is the list, separated by *)
(* ', ', of the '.'-joined placeholder paths of all the leaves in insertion *)
(* order, depth first.  The segments of the enumerated trees hold no        *)
(* parenthesis themselves.                                                  *)
C13_SelectionText ==
    output # NotRun =>
        LET paths == SelectionPaths(input, <<>>)
        IN  /\ DOMAIN output = {"expression", "expression_attribute_names",
                                "expression_attribute_values"}
            /\ output.expression_attribute_values = EmptyMap
            /\ \A i \in DOMAIN output.expression : output.expression[i] \notin {"(", ")"}
            /\ Text(output.expression)
                    = Listed([i \in DOMAIN paths |-> PathText(paths[i])])

\* Node({a: Leaves([b, c]), d: Leaves([e, f])}) is compiled
C13_Witness ==
    /\ output # NotRun
    /\ input = SelectionNodeSingleLevel
    /\ Text(output.expression) = "#a.#b, #a.#c, #d.#e, #d.#f"
    /\ output.expression_attribute_values = EmptyMap

-----------------------------------------------------------------------------
\* the template of a SET leaf over its path and its value placeholder
SetTemplate(variant, path, ph) ==
    CASE variant = "Assign" -> path \o " = " \o ph
      [] variant = "Increment" -> path \o " = " \o path \o " + " \o ph
      [] variant = "Decrement" -> path \o " = " \o path \o " - " \o ph
      [] variant = "ListAppend" -> path \o " = list_append(" \o path \o ", " \o ph \o ")"
      [] variant = "ListPrepend" -> path \o " = list_append(" \o ph \o ", " \o path \o ")"
      [] variant = "IfNotExists" -> path \o " = if_not_exists(" \o path \o ", " \o ph \o ")"

RECURSIVE UpdateLeafList(_, _)
\* the leaves of a Set, Add or Delete tree below the segments `above`, in
\* insertion order, depth first: for each its path and what it holds
UpdateLeafList(map, above) ==
    IF map.kind = "Leaves"
    THEN [i \in DOMAIN map.leaves |->
            [path |-> Append(above, map.leaves[i][1]), held |-> map.leaves[i][2]]]
    ELSE Concat([i \in DOMAIN map.map |->
                    UpdateLeafList(map.map[i].value, Append(above, map.map[i].key))])

\* a Set tree has been compiled without error
SetCompiled == output # NotRun /\ input.kind = "Set" /\ output.ok

(* C14: every leaf (segment, SetInput) of a Set tree compiles, with the one   *)
(* value placeholder ':set<index>' that is bound to its value, to the        *)
(* template of its variant over its joined path: Assign 'path = ph',         *)
(* Increment 'path = path + ph', Decrement 'path = path - ph', ListAppend    *)
(* 'path = list_append(path, ph)', ListPrepend 'path = list_append(ph,       *)
(* path)', IfNotExists 'path = if_not_exists(path, ph)'; the leaves of the   *)
(* whole tree are joined with ', ' and the clause begins with 'SET '.        *)
C14_SetClause ==
    SetCompiled =>
        LET leaves == UpdateLeafList(input.map, <<>>)
            ph(k) == ":set" \o ToString(k - 1)
            values == output.operation.expression_attribute_values
        IN  /\ Text(output.operation.expression)
                    = "SET " \o Listed([k \in DOMAIN leaves |->
                                SetTemplate(leaves[k].held.variant,
                                            PathText(leaves[k].path), ph(k))])
            /\ DOMAIN values = {ph(k) : k \in DOMAIN leaves}
            /\ \A k \in DOMAIN leaves :
                    values[ph(k)] = to_attribute_value(leaves[k].held.value)

\* two leaves of other variants than Assign, one that writes the placeholder
\* before the path
C14_Witness ==
    /\ SetCompiled
    /\ Text(output.operation.expression)
            = "SET #a = #a + :set0, #b = list_append(:set1, #b)"
    /\ DOMAIN output.operation.expression_attribute_values = {":set0", ":set1"}

-----------------------------------------------------------------------------
RECURSIVE Spaced(_)
\* the texts of a list, separated by one space
Spaced(texts) ==
    IF Len(texts) = 0 THEN ""
    ELSE IF Len(texts) = 1 THEN texts[1]
    ELSE texts[1] \o " " \o Spaced(Tail(texts))

\* an Add or a Delete tree has been compiled without error
AddOrDeleteCompiled == output # NotRun /\ input.kind \in {"Add", "Delete"} /\ output.ok

(* C15: every leaf (segment, value) of an Add or a Delete tree compiles to   *)
(* the fragment 'path ph' with the one value placeholder                     *)
(* ':add_or_delete<index>' that is bound to its value; the leaves of the     *)
(* clause are joined with one space, and the clause begins with 'ADD ' for   *)
(* Add and with 'DELETE ' for Delete.                                        *)
C15_AddOrDeleteClause ==
    AddOrDeleteCompiled =>
        LET leaves == UpdateLeafList(input.map, <<>>)
            ph(k) == ":add_or_delete" \o ToString(k - 1)
            values == output.operation.expression_attribute_values
        IN  /\ Text(output.operation.expression)
                    = (IF input.kind = "Add" THEN "ADD " ELSE "DELETE ")
                        \o Spaced([k \in DOMAIN leaves |->
                                PathText(leaves[k].path) \o " " \o ph(k)])
            /\ DOMAIN values = {ph(k) : k \in DOMAIN leaves}
            /\ \A k \in DOMAIN leaves :
                    values[ph(k)] = to_attribute_value(leaves[k].held)

\* a Delete of two leaves on paths of two segments
C15_Witness ==
    /\ AddOrDeleteCompiled
    /\ input.kind = "Delete"
    /\ Text(output.operation.expression)
            = "DELETE #a.#b :add_or_delete0 #b.#a :add_or_delete1"
    /\ DOMAIN output.operation.expression_attribute_values
            = {":add_or_delete0", ":add_or_delete1"}

-----------------------------------------------------------------------------
RECURSIVE SubTreeResults(_, _)
\* what the sub-trees of a Combined list compile to, in list order, the first
\* from the counter value `index` and each next one from the value the one
\* before it returned
SubTreeResults(list, index) ==
    IF Len(list) = 0 THEN <<>>
    ELSE LET got == get_update_expression_recursive(Head(list), <<>>, index)
         IN  <<got>> \o (IF got.ok THEN SubTreeResults(Tail(list), got.index) ELSE <<>>)

\* a map as the set of its entries
Entries(map) == {<<k, map[k]>> : k \in DOMAIN map}

\* the texts of a sequence that are not "", in order
RECURSIVE NonEmptyTexts(_)
NonEmptyTexts(texts) ==
    IF Len(texts) = 0 THEN <<>>
    ELSE (IF Head(texts) = "" THEN <<>> ELSE <<Head(texts)>>) \o NonEmptyTexts(Tail(texts))

\* a Combined list has been compiled without error
CombinedCompiled == output # NotRun /\ input.kind = "Combined" /\ output.ok

(* C16: Combined(list) compiles its sub-trees in list order and yields their *)
(* clause texts in that order with exactly one space between two of them (a  *)
(* sub-tree that has no clause, an empty Combined list, has no text and      *)
(* takes no space); the names map and the values map of the result are the   *)
(* unions of those of the sub-trees.                                         *)
C16_CombinedJoinsInOrder ==
    CombinedCompiled =>
        LET results == SubTreeResults(input.list, 0)
        IN  /\ Len(results) = Len(input.list)
            /\ \A i \in DOMAIN results : results[i].ok
            /\ Text(output.operation.expression)
                    = Spaced(NonEmptyTexts(
                        [i \in DOMAIN results |-> Text(results[i].operation.expression)]))
            /\ Entries(output.operation.expression_attribute_names)
                    = UNION {Entries(results[i].operation.expression_attribute_names) :
                                i \in DOMAIN results}
            /\ Entries(output.operation.expression_attribute_values)
                    = UNION {Entries(results[i].operation.expression_attribute_values) :
                                i \in DOMAIN results}

\* a list of an ADD clause and a Combined list, which holds a Combined list
\* between a REMOVE and a SET clause
C16_Witness ==
    /\ CombinedCompiled
    /\ input = CombinedThreeDeep
    /\ Text(output.operation.expression)
            = "ADD #a :add_or_delete0 REMOVE #b SET #a = :set1 DELETE #b :add_or_delete2 SET #b = #b - :set3"
    /\ DOMAIN output.operation.expression_attribute_names = {"#a", "#b"}

-----------------------------------------------------------------------------
\* the operands of a condition tree that are encoded, in traversal order: the
\* prefix of BeginsWith is a String and is not encoded
ConditionOperands(tree) ==
    LET leaves == LeafList(tree, <<>>)
    IN  Concat([k \in DOMAIN leaves |->
                    IF leaves[k].condition.variant = "BeginsWith" THEN <<>>
                    ELSE leaves[k].condition.operands])

\* the values of an update tree that are encoded, in traversal order
UpdateOperands(tree) ==
    LET leaves == ValueLeaves(tree)
    IN  [k \in DOMAIN leaves |-> leaves[k].value]

\* the positions of the values of a sequence that cannot be encoded
Rejected(values) == {i \in DOMAIN values : ~encodable(values[i])}

\* the first value of a sequence that cannot be encoded
FirstRejected(values) ==
    values[CHOOSE i \in Rejected(values) : \A j \in Rejected(values) : i <= j]

\* the condition of a request
ConditionOfRequest ==
    IF input.kind \in {"Scan", "Query"} THEN input.multiple_read_args.condition
    ELSE input.write_args.condition

\* what a conversion encodes before it compiles the condition has been encoded:
\* the item of a PutItem, the keys of a DeleteItem and of an UpdateItem, the
\* exclusive_start_key of a Scan and of a Query
EncodedBeforeCondition ==
    CASE input.kind = "PutItem" -> \A name \in DOMAIN input.item : encodable(input.item[name])
      [] input.kind \in {"DeleteItem", "UpdateItem"} ->
            /\ encodable(input.keys.partition_key.value)
            /\ input.keys.sort_key.some => encodable(input.keys.sort_key.value.value)
      [] OTHER ->
            input.multiple_read_args.exclusive_start_key.some =>
                \A name \in DOMAIN input.multiple_read_args.exclusive_start_key.value :
                    encodable(input.multiple_read_args.exclusive_start_key.value[name])

\* the operands that the compilations of a request encode, in the order of the
\* compilations: those of the condition, then those of the update expression
CompiledOperands ==
    (IF ConditionOfRequest.some THEN ConditionOperands(ConditionOfRequest.value) ELSE <<>>)
        \o (IF input.kind = "UpdateItem" THEN UpdateOperands(input.update_expression)
            ELSE <<>>)

(* C17: if encoding the operand of a leaf fails while the condition or the   *)
(* update expression of a request is compiled, the conversion returns an     *)
(* error and nothing else: the error of the first failing operand in         *)
(* traversal order (so that no leaf after it decides the outcome), and       *)
(* neither an atom, nor a names or values table, nor a request object.       *)
C17_FirstErrorAndNothingElse ==
    (output # NotRun /\ EncodedBeforeCondition /\ Rejected(CompiledOperands) # {}) =>
        /\ ~output.ok
        /\ output.error = FirstRejected(CompiledOperands)
        /\ DOMAIN output = {"ok", "error"}

\* an UpdateItem whose condition compiles and whose update expression holds a
\* rejected value in its third clause and another one in its fourth
C17_Witness ==
    /\ output # NotRun
    /\ input.kind = "UpdateItem"
    /\ EncodedBeforeCondition
    /\ input.write_args.condition = Some(LeavesEqualsC)
    /\ input.update_expression = FailingCombined
    /\ output = Err(Worse)

-----------------------------------------------------------------------------
RECURSIVE MapSegments(_)
\* the segment texts of a condition, selection, Set, Add or Delete tree: every
\* Node key and every leaf name
MapSegments(tree) ==
    IF tree.kind = "Leaves"
    THEN IF "names" \in DOMAIN tree THEN Range(tree.names)
         ELSE IF "operator" \in DOMAIN tree
         THEN {tree.leaves[i].name : i \in DOMAIN tree.leaves}
         ELSE {tree.leaves[i][1] : i \in DOMAIN tree.leaves}
    ELSE {tree.map[i].key : i \in DOMAIN tree.map}
            \cup UNION {MapSegments(tree.map[i].value) : i \in DOMAIN tree.map}

RECURSIVE UpdateSegments(_)
\* the segment texts of an update tree
UpdateSegments(tree) ==
    IF tree.kind = "Combined"
    THEN UNION {UpdateSegments(tree.list[i]) : i \in DOMAIN tree.list}
    ELSE MapSegments(tree.map)

\* the segment texts of the tree that is compiled
Segments ==
    IF input.compiler = "update" THEN UpdateSegments(input.tree)
    ELSE MapSegments(input.tree)

\* a compilation has yielded an atom
AtomCompiled ==
    /\ output # NotRun
    /\ input.compiler \in {"condition", "update"} => output.ok

\* the atom a compilation has yielded
Atom == IF input.compiler = "selection" THEN output ELSE output.operation

(* C18: in every compiled atom, of a condition, a selection or an update,    *)
(* each key of the names map is '#' followed by its own value, and the names *)
(* map has one entry for every distinct segment text of the tree (every Node *)
(* key and every leaf name): the occurrences of one segment on several paths *)
(* or at several depths share one entry, and the map is a function of the    *)
(* set of segments alone, whatever the order of the merges.                  *)
C18_NamesOfSegments ==
    AtomCompiled =>
        /\ DOMAIN Atom.expression_attribute_names = {"#" \o segment : segment \in Segments}
        /\ \A segment \in Segments :
                Atom.expression_attribute_names["#" \o segment] = segment
        /\ Cardinality(DOMAIN Atom.expression_attribute_names) = Cardinality(Segments)

\* the segment b is a key of the root and a key below the key a
C18_Witness ==
    /\ AtomCompiled
    /\ input = Compilation("condition", NodeNested)
    /\ Text(Atom.expression)
            = "(#a.#b.#c = :c_eq0 AND #a.#b.#e = :e_eq1) AND (#b.#g = :g_eq2 OR #b.#i = :i_eq3)"
    /\ DOMAIN Atom.expression_attribute_names = {"#a", "#b", "#c", "#e", "#g", "#i"}

-----------------------------------------------------------------------------
\* the condition tree that is compiled is a Node of one entry, whose value is
\* a Leaves
NodeOfOneLeaves ==
    /\ output # NotRun
    /\ input.compiler = "condition"
    /\ input.tree.kind = "Node"
    /\ Len(input.tree.map) = 1
    /\ input.tree.map[1].value.kind = "Leaves"

\* the fragments of the conditions of a Leaves, each on the path made of
\* `prefix` and of the placeholder of its name
FragmentsBelow(leaves, prefix) ==
    [k \in DOMAIN leaves |->
        FragmentOf(leaves[k].condition.variant,
                   prefix \o "#" \o leaves[k].name,
                   PlaceholdersOf(leaves[k].condition.variant, leaves[k].name,
                                  OperandsBefore(leaves, k),
                                  Len(leaves[k].condition.operands), TRUE))]

(* C19: for all operators op and op2, every segment s and every leaf list L, *)
(* compiling the root tree Node(op, {s: Leaves(op2, L)}) yields the text     *)
(* that compiling Leaves(op2, L) alone yields, except that the path of every *)
(* leaf begins with '#s.': the same lexemes between the fragments and the    *)
(* same fragments over the longer paths.  The value placeholders and the     *)
(* values map are the same, and the names map is that of the Leaves with the *)
(* entry '#s' -> s added.  If the one fails, the other fails alike.          *)
C19_OneChildNodeIsItsLeaves ==
    NodeOfOneLeaves =>
        LET s == input.tree.map[1].key
            child == input.tree.map[1].value
            alone == condition_try_from(child)
        IN  IF ~alone.ok THEN output = alone
            ELSE LET text == output.operation.expression
                     text_alone == alone.operation.expression
                 IN  /\ output.ok
                     /\ Len(text) = Len(text_alone)
                     /\ \A i \in DOMAIN text :
                            /\ IsFragment(text[i]) <=> IsFragment(text_alone[i])
                            /\ ~IsFragment(text[i]) => text[i] = text_alone[i]
                     /\ Fragments(text_alone) = FragmentsBelow(child.leaves, "")
                     /\ Fragments(text) = FragmentsBelow(child.leaves, "#" \o s \o ".")
                     /\ output.operation.expression_attribute_values
                            = alone.operation.expression_attribute_values
                     /\ output.operation.expression_attribute_names
                            = [k \in DOMAIN alone.operation.expression_attribute_names
                                        \cup {"#" \o s} |->
                                IF k = "#" \o s THEN s
                                ELSE alone.operation.expression_attribute_names[k]]

\* the tree of the test node_nested_same_key_or: a Leaves of two conditions
\* below the one key of the root
C19_Witness ==
    /\ NodeOfOneLeaves
    /\ input.tree = NodeNestedSameKeyOr
    /\ output.ok
    /\ Text(output.operation.expression) = "#a.#b = :b_eq0 OR #a.#b = :b_eq1"
    /\ Text(condition_try_from(input.tree.map[1].value).operation.expression)
            = "#b = :b_eq0 OR #b = :b_eq1"

-----------------------------------------------------------------------------
\* the atom, or the error, of a tree that is compiled in one piece
InOnePiece(compilation) ==
    IF compilation.compiler = "condition" THEN condition_try_from(compilation.tree)
    ELSE update_try_from(compilation.tree)

(* C20: compiling one tree any number of times, alone or with its steps      *)
(* interleaved in any order with those of other compilations, yields the     *)
(* identical atom each time, the one of a compilation in one piece: every    *)
(* compilation starts a counter of its own at 0 and owns its names and       *)
(* values maps, and none reads or writes those of another.                   *)
C20_CompilationsDoNotInteract ==
    /\ \A slot \in Slots : \A i \in DOMAIN output[slot].results :
            output[slot].results[i] = InOnePiece(input[slot])
    /\ \A slot \in Slots, other \in Slots :
            input[slot] = input[other] =>
                \A i \in DOMAIN output[slot].results, j \in DOMAIN output[other].results :
                    output[slot].results[i] = output[other].results[j]

\* the first compilation has compiled NodeNested twice, the second one is in
\* the middle of compiling it again: its counter is at 2, the first one's
\* results are there
C20_Witness ==
    /\ input[1] = Compilation("condition", NodeNested)
    /\ input[2] = input[1]
    /\ Len(output[1].results) = 2
    /\ output[1].results[1].ok
    /\ output[1].results[1] = output[1].results[2]
    /\ Len(output[2].results) = 1
    /\ output[2].results[1] = output[1].results[1]
    /\ output[2].status = "running"
    /\ output[2].index = 2

-----------------------------------------------------------------------------
RECURSIVE Separated(_, _)
\* the lexemes of the texts of a list, a separator between each two of them
Separated(texts, separator) ==
    IF Len(texts) = 0 THEN <<>>
    ELSE IF Len(texts) = 1 THEN texts[1]
    ELSE texts[1] \o <<separator>> \o Separated(Tail(texts), separator)

\* the texts of the atoms of a list, in list order
TextsOf(items) == [i \in DOMAIN items |-> items[i].expression]

\* the texts of a sequence that have a lexeme, in order
WithLexemes(texts) == SelectSeq(texts, LAMBDA text : Len(text) > 0)

\* the number of lexemes of an expression that are a parenthesis
Parentheses(expression) ==
    Cardinality({i \in DOMAIN expression : expression[i] \in {"(", ")"}})

\* a list of atoms has been merged
Merged == input.kind = "merge" /\ output # NotRun

(* C21: merge produces exactly the non-empty texts of the atoms, in list     *)
(* order, joined by the operator text: an atom of empty text is skipped, the *)
(* merged text neither starts nor ends with the operator, no two operators   *)
(* follow each other in it, and it has the parentheses of the atoms and no   *)
(* other.                                                                    *)
C21_MergeJoinsNonEmptyTexts ==
    Merged =>
        /\ output.expression = Separated(WithLexemes(TextsOf(input.items)), input.operator)
        /\ Len(output.expression) > 0 =>
                /\ output.expression[1] # input.operator
                /\ output.expression[Len(output.expression)] # input.operator
        /\ \A i \in 1..(Len(output.expression) - 1) :
                ~(output.expression[i] = input.operator
                    /\ output.expression[i + 1] = input.operator)
        /\ Parentheses(output.expression)
                = Sum([i \in DOMAIN input.items |-> Parentheses(input.items[i].expression)])

\* atoms of empty text at the start, in the middle and at the end of a list
\* that has two atoms with a text, one of them enclosed: one " AND " was written
C21_Witness ==
    /\ Merged
    /\ input.operator = operator_text("And")
    /\ Len(input.items) = 4
    /\ Len(input.items[1].expression) = 0
    /\ Len(input.items[2].expression) = 5
    /\ Len(input.items[3].expression) = 0
    /\ Len(input.items[4].expression) = 1
    /\ Len(output.expression) = 7
    /\ output.expression[6] = " AND "

-----------------------------------------------------------------------------
\* the innermost call of a compilation
Innermost(process) == process.stack[Len(process.stack)]

\* the condition that the next round of the innermost call compiles
NextLeaf(process) == Innermost(process).self.leaves[Innermost(process).position]

\* the compilation is about to compile a condition
AtLeaf(process) ==
    /\ process.status = "running"
    /\ Innermost(process).sort = "condition"
    /\ on_leaves(Innermost(process))
    /\ Innermost(process).position <= rounds(Innermost(process))

\* the operands of a variant: 0 for Null and NotNull, 2 for Between, the list
\* length for In, 1 for every other
OperandsOfVariant(condition) ==
    CASE condition.variant \in {"Null", "NotNull"} -> 0
      [] condition.variant = "Between" -> 2
      [] condition.variant = "In" -> Len(condition.operands)
      [] OTHER -> 1

\* the value placeholders of the conditions of a tree, the k-th condition
\* compiled at the number of operands before it
PlaceholdersOfTree(tree) ==
    LET leaves == LeafList(tree, <<>>)
    IN  UNION {Range(PlaceholdersOf(leaves[k].condition.variant, leaves[k].name,
                                    OperandsBefore(leaves, k),
                                    OperandsOfVariant(leaves[k].condition), TRUE)) :
               k \in DOMAIN leaves}

\* the indices the conditions of a tree are compiled with
IndicesOfTree(tree) ==
    LET leaves == LeafList(tree, <<>>)
    IN  UNION {{OperandsBefore(leaves, k) + i - 1 :
                    i \in 1..OperandsOfVariant(leaves[k].condition)} :
               k \in DOMAIN leaves}

\* a round of a Leaves loop that compiles a condition without error
LeafCompiled(before, after) ==
    /\ AtLeaf(before)
    /\ after # before
    /\ after.status = "running"

\* the condition advanced the counter by the number of its operands, and its
\* placeholders carry the consecutive indices from the counter on
CounterAdvanced(before, after) ==
    LET condition == NextLeaf(before).condition
        pushed == Innermost(after).operations[Len(Innermost(after).operations)]
        placeholders == PlaceholdersOf(condition.variant, NextLeaf(before).name,
                                       before.index, OperandsOfVariant(condition), TRUE)
    IN  /\ after.index = before.index + OperandsOfVariant(condition)
        /\ DOMAIN pushed.expression_attribute_values = Range(placeholders)
        /\ Cardinality(Range(placeholders)) = OperandsOfVariant(condition)

\* the compilation of a tree returns Ok
TreeCompiled(before, after) ==
    /\ before.status = "running"
    /\ Len(after.results) = Len(before.results) + 1
    /\ after.results[Len(after.results)].ok

\* the indices used over the tree are 0..n-1, each once
IndicesDense(tree, before, after) ==
    LET values == after.results[Len(after.results)].operation.expression_attribute_values
    IN  /\ before.index = OperandCount(tree)
        /\ IndicesOfTree(tree) = 0..(OperandCount(tree) - 1)
        /\ DOMAIN values = PlaceholdersOfTree(tree)
        /\ Cardinality(DOMAIN values) = OperandCount(tree)

(* C22: compiling one condition advances the counter by exactly the number  *)
(* of its operands: 0 for Null and NotNull, 2 for Between, the list length  *)
(* for In and 1 for every other variant, its placeholders carrying          *)
(* consecutive indices (those of In also the position in the list); over a  *)
(* tree of n operands the indices used are exactly 0..n-1, without gap or   *)
(* reuse.                                                                    *)
C22_CounterAdvancesByOperands ==
    [][/\ LeafCompiled(output[1], output'[1]) => CounterAdvanced(output[1], output'[1])
       /\ TreeCompiled(output[1], output'[1])
            => IndicesDense(input[1].tree, output[1], output'[1])]_vars

\* the Node of two Leaves of 0, 1, 2 and 3 operands has been compiled: the
\* counter went to 14
C22_Witness ==
    /\ input[1].tree = NodeOfManyOperands
    /\ Len(output[1].results) = 1
    /\ output[1].results[1].ok
    /\ Cardinality(DOMAIN output[1].results[1].operation.expression_attribute_values) = 14
    /\ output[1].status = "running"
    /\ AtLeaf(output[1])
    /\ NextLeaf(output[1]).condition.variant = "Between"
    /\ output[1].index = 10

-----------------------------------------------------------------------------
\* an UpdateItem that has a condition has been converted without error
UpdateItemWithConditionConverted ==
    /\ output # NotRun
    /\ input.kind = "UpdateItem"
    /\ input.write_args.condition.some
    /\ output.ok

\* the atom of the condition of the converted UpdateItem
ConditionAtom == condition_try_from(input.write_args.condition.value).operation
\* the atom of its update expression
UpdateAtom == update_try_from(input.update_expression).operation

\* map holds the entries of both maps and no other
UnionOf(map, first, second) ==
    /\ DOMAIN map = DOMAIN first \cup DOMAIN second
    /\ \A key \in DOMAIN first : map[key] = first[key]
    /\ \A key \in DOMAIN second : map[key] = second[key]

(* C23: converting an UpdateItem that has a condition yields                 *)
(* update_expression holding the compiled update text only and               *)
(* condition_expression holding the compiled condition text only; the names  *)
(* and values tables of the request are the unions of the maps of the two    *)
(* atoms; no value placeholder of the update expression is one of the        *)
(* condition, so that the values table has one entry per operand of both.    *)
(* The request of test_update_item::full has 'SET #a = :set0' and            *)
(* '#c = :c_eq0'.                                                            *)
C23_UpdateAndConditionKeptApart ==
    UpdateItemWithConditionConverted =>
        LET write_operation == output.operation.write_operation
        IN  /\ output.operation.update_expression = Text(UpdateAtom.expression)
            /\ write_operation.condition_expression = Some(Text(ConditionAtom.expression))
            /\ write_operation.expression_attribute_names.some
            /\ UnionOf(write_operation.expression_attribute_names.value,
                       ConditionAtom.expression_attribute_names,
                       UpdateAtom.expression_attribute_names)
            /\ write_operation.expression_attribute_values.some
            /\ UnionOf(write_operation.expression_attribute_values.value,
                       ConditionAtom.expression_attribute_values,
                       UpdateAtom.expression_attribute_values)
            /\ DOMAIN ConditionAtom.expression_attribute_values
                    \cap DOMAIN UpdateAtom.expression_attribute_values = {}
            /\ Cardinality(DOMAIN write_operation.expression_attribute_values.value)
                    = OperandCount(input.write_args.condition.value)
                        + Len(ValueLeaves(input.update_expression))
            /\ (/\ input.write_args.condition.value = LeavesEqualsC
                 /\ input.update_expression = Set(SetLeaves(<<<<"a", SetInput("Assign", V1)>>>>)))
                    => /\ output.operation.update_expression = "SET #a = :set0"
                       /\ write_operation.condition_expression = Some("#c = :c_eq0")
                       /\ DOMAIN write_operation.expression_attribute_names.value
                            = {"#a", "#c"}
                       /\ DOMAIN write_operation.expression_attribute_values.value
                            = {":c_eq0", ":set0"}

\* the tree of node_nested as the condition of an UpdateItem of four clauses
\* with a value: four operands of the condition, four of the update expression
C23_Witness ==
    /\ UpdateItemWithConditionConverted
    /\ input.write_args.condition.value = NodeNested
    /\ input.update_expression = CombinedThreeDeep
    /\ Cardinality(DOMAIN output.operation.write_operation.expression_attribute_values.value)
            = 8
    /\ ":set3" \in DOMAIN output.operation.write_operation.expression_attribute_values.value
    /\ ":c_eq0" \in DOMAIN output.operation.write_operation.expression_attribute_values.value

-----------------------------------------------------------------------------
\* a Scan has been converted without error: its MultipleReadArgs and the
\* MultipleReadInput they were converted to
ScanConverted == output # NotRun /\ input.kind = "Scan" /\ output.ok
ReadArgs == input.multiple_read_args
ReadInput == output.operation.multiple_read_operation

\* the names of the compiled condition and of the compiled selection of the
\* MultipleReadArgs: none for the one that is not given
NamesOfCondition ==
    IF ReadArgs.condition.some
    THEN condition_try_from(ReadArgs.condition.value).operation.expression_attribute_names
    ELSE EmptyMap
NamesOfSelection ==
    IF ReadArgs.selection.some
    THEN selection_from(ReadArgs.selection.value).expression_attribute_names
    ELSE EmptyMap

(* C24: converting MultipleReadArgs, the filter expression and the values   *)
(* table are present iff a condition is given; the projection expression is *)
(* present iff a selection is given; the names table is present iff a       *)
(* condition or a selection is given, and is then the union of the names of *)
(* the compiled condition and of the compiled selection; with neither, all  *)
(* four are absent.                                                          *)
C24_TablesPresentWhenGiven ==
    ScanConverted =>
        /\ ReadInput.filter_expression.some <=> ReadArgs.condition.some
        /\ ReadInput.expression_attribute_values.some <=> ReadArgs.condition.some
        /\ ReadInput.projection_expression.some <=> ReadArgs.selection.some
        /\ ReadInput.expression_attribute_names.some
                <=> (ReadArgs.condition.some \/ ReadArgs.selection.some)
        /\ ReadInput.expression_attribute_names.some =>
                UnionOf(ReadInput.expression_attribute_names.value,
                        NamesOfCondition, NamesOfSelection)
        /\ (~ReadArgs.condition.some /\ ~ReadArgs.selection.some) =>
                /\ ReadInput.filter_expression = None
                /\ ReadInput.expression_attribute_values = None
                /\ ReadInput.projection_expression = None
                /\ ReadInput.expression_attribute_names = None

\* a Scan with a selection below a Node and no condition: a projection and
\* the names of its three segments, no filter and no values
C24_Witness ==
    /\ ScanConverted
    /\ ~ReadArgs.condition.some
    /\ ReadArgs.selection = Some(SelectionNode(<<Entry("e", SelectionLeaves(<<"f", "a">>))>>))
    /\ ReadInput.projection_expression = Some("#e.#f, #e.#a")
    /\ DOMAIN ReadInput.expression_attribute_names.value = {"#e", "#f", "#a"}
    /\ ReadInput.expression_attribute_values = None
    /\ ReadInput.filter_expression = None

-----------------------------------------------------------------------------
\* send has returned after it had built its request
SendReturned == output.status = "returned" /\ input.converts

\* the positions of the pages that are an error
ErrorPages == {i \in DOMAIN input.pages : ~input.pages[i].ok}

\* the first page that is an error
FirstErrorPage == CHOOSE i \in ErrorPages : \A j \in ErrorPages : i <= j

\* the items of the pages, in page order
ItemsOfPages ==
    Concat([i \in DOMAIN input.pages |->
                IF input.pages[i].items.some THEN input.pages[i].items.value ELSE <<>>])

RECURSIVE SumWithin(_, _, _)
\* the sum of the numbers and of `so_far` if it is at most `most`, and -1
\* otherwise
SumWithin(numbers, so_far, most) ==
    IF Len(numbers) = 0 THEN so_far
    ELSE IF so_far > most - Head(numbers) THEN -1
    ELSE SumWithin(Tail(numbers), so_far + Head(numbers), most)

\* the sums of count and of scanned_count over the pages if they are an i32,
\* and -1 otherwise
CountOfPages == SumWithin([i \in DOMAIN input.pages |-> input.pages[i].count], 0, I32_MAX)
ScannedOfPages ==
    SumWithin([i \in DOMAIN input.pages |-> input.pages[i].scanned_count], 0, I32_MAX)

\* send returned the error of the first page that is one, after it had
\* requested the pages up to that one and no other
StoppedAtFirstError ==
    /\ output.result = input.pages[FirstErrorPage]
    /\ output.requested = FirstErrorPage
    /\ DOMAIN output.result = {"ok", "error"}

\* send returned one output of all the pages
ReturnedAllPages ==
    /\ output.requested = Len(input.pages)
    /\ output.result.ok
    /\ output.result.output.items = Some(ItemsOfPages)

(* C25: Query.send and Scan.send request pages until the paginator is       *)
(* exhausted and then return one output whose items are the concatenation   *)
(* of the items of the pages in page order and whose count and              *)
(* scanned_count are the sums over all pages; if a page is an error, send   *)
(* returns that error, requests no further page and returns no partial      *)
(* output.                                                                   *)
C25_SendSumsPages ==
    SendReturned =>
        IF ErrorPages # {} THEN StoppedAtFirstError
        ELSE /\ ReturnedAllPages
             /\ CountOfPages >= 0
             /\ output.result.output.count = Some(CountOfPages)
             /\ ScannedOfPages >= 0
             /\ output.result.output.scanned_count = Some(ScannedOfPages)

\* C25 for the runs of pages whose sums are an i32: the claim holds of them
C25_SendSumsPagesThatFit ==
    (SendReturned /\ (ErrorPages = {} => CountOfPages >= 0 /\ ScannedOfPages >= 0))
        => IF ErrorPages # {} THEN StoppedAtFirstError
           ELSE /\ ReturnedAllPages
                /\ output.result.output.count = Some(CountOfPages)
                /\ output.result.output.scanned_count = Some(ScannedOfPages)

\* three pages, the second without items: three items, a count beyond 2^30
C25_SummedThreePages ==
    /\ SendReturned
    /\ Len(input.pages) = 3
    /\ output.result.ok
    /\ output.result.output.items = Some(<<"y", "z", "x">>)
    /\ output.result.output.count = Some(1073741827)

-----------------------------------------------------------------------------
\* the characters of a placeholder after its '#' or ':'
NameCharacters ==
    LET characters == "abcdefghijklmnopqrstuvwxyzABCDEFGHIJKLMNOPQRSTUVWXYZ0123456789_"
    IN  {SubSeq(characters, i, i) : i \in 1..Len(characters)}

\* the character of a text at a position
CharacterAt(text, position) == SubSeq(text, position, position)

RECURSIVE TokenEnd(_, _)
\* the position of the last of the name characters that follow a position
TokenEnd(text, position) ==
    IF position < Len(text) /\ CharacterAt(text, position + 1) \in NameCharacters
    THEN TokenEnd(text, position + 1)
    ELSE position

\* the placeholder tokens of an expression text: each '#' or ':' of the text
\* with the name characters that follow it
Tokens(text) ==
    {SubSeq(text, start, TokenEnd(text, start)) :
        start \in {position \in 1..Len(text) : CharacterAt(text, position) \in {"#", ":"}}}

\* the name placeholders and the value placeholders among the tokens
NameTokens(text) == {token \in Tokens(text) : Head(token) = "#"}
ValueTokens(text) == {token \in Tokens(text) : Head(token) = ":"}

(* C26: in every atom of the condition, the selection or the update          *)
(* compiler, every placeholder token of the expression text is defined:      *)
(* each '#segment' of every path is a key of the names map and each ':...'   *)
(* value placeholder is a key of the values map.                             *)
C26_TokensAreDefined ==
    AtomCompiled =>
        /\ NameTokens(Text(Atom.expression)) \subseteq DOMAIN Atom.expression_attribute_names
        /\ ValueTokens(Text(Atom.expression)) \subseteq DOMAIN Atom.expression_attribute_values

\* the update tree of three Combined lists: five name tokens of two segments,
\* four value tokens
C26_Witness ==
    /\ AtomCompiled
    /\ input.compiler = "update"
    /\ input.tree = CombinedThreeDeep
    /\ NameTokens(Text(Atom.expression)) = {"#a", "#b"}
    /\ ValueTokens(Text(Atom.expression))
            = {":add_or_delete0", ":set1", ":add_or_delete2", ":set3"}

(* C27: in every atom of the condition, the selection or the update          *)
(* compiler, for every input tree, every key of the names map and every key  *)
(* of the values map occurs in the expression text of the atom: no           *)
(* placeholder is emitted that the expression does not use.                  *)
C27_PlaceholdersAreUsed ==
    AtomCompiled =>
        /\ DOMAIN Atom.expression_attribute_names \subseteq NameTokens(Text(Atom.expression))
        /\ DOMAIN Atom.expression_attribute_values \subseteq ValueTokens(Text(Atom.expression))

-----------------------------------------------------------------------------
\* the text has the string `part` at a position
HasAt(text, part, position) ==
    /\ position + Len(part) - 1 <= Len(text)
    /\ SubSeq(text, position, position + Len(part) - 1) = part

\* the lexemes that merge writes between the operands of a Leaves or a Node
IsOperator(lexeme) == lexeme \in {operator_text("And"), operator_text("Or")}

(* C28: a condition subtree that holds no leaf condition contributes        *)
(* nothing to the compiled expression: for every tree the text has no empty *)
(* pair of parentheses '()' and every AND and OR in it has an operand that  *)
(* is not empty on both sides.                                               *)
C28_NothingOfEmptySubtrees ==
    Compiled =>
        LET expression == output.operation.expression
            text == Text(expression)
        IN  /\ \A position \in 1..Len(text) : ~HasAt(text, "()", position)
            /\ \A i \in DOMAIN expression :
                    IsOperator(expression[i]) =>
                        /\ 1 < i
                        /\ i < Len(expression)
                        /\ ~IsOperator(expression[i - 1]) /\ expression[i - 1] # "("
                        /\ ~IsOperator(expression[i + 1]) /\ expression[i + 1] # ")"

\* the keywords of the clauses of an update expression
ClauseKeywords == {"SET ", "ADD ", "DELETE ", "REMOVE "}

\* a clause keyword begins at a position of the text: at its start or after
\* the space that separates two clauses
KeywordAt(text, keyword, position) ==
    /\ HasAt(text, keyword, position)
    /\ position = 1 \/ CharacterAt(text, position - 1) = " "

(* C29: in every compiled update expression each clause keyword (SET, ADD,  *)
(* DELETE, REMOVE) is immediately followed by at least one action, which    *)
(* begins with the '#' of its path: an Add, Delete, Remove or Set sub-tree  *)
(* without leaves adds no keyword to the text, also in a Combined list.     *)
C29_KeywordsHaveActions ==
    Compiled =>
        LET text == Text(output.operation.expression)
        IN  \A keyword \in ClauseKeywords, position \in 1..Len(text) :
                KeywordAt(text, keyword, position) =>
                    HasAt(text, "#", position + Len(keyword))

\* three clauses with an action each: every keyword is followed by a path
C29_KeywordsFollowed ==
    /\ Compiled
    /\ input = CombinedSetRemoveAdd
    /\ Text(output.operation.expression)
            = "SET #attr1 = :set0 REMOVE #oldAttr ADD #count :add_or_delete1"

\* a BatchGetItem has been converted without error
BatchGetItemConverted ==
    output # NotRun /\ input.kind = "BatchGetItem" /\ output.ok

\* the keys the built request lists under a table name
ListedKeys(table_name) ==
    IF table_name \in DOMAIN output.operation.request_items.value
    THEN {output.operation.request_items.value[table_name].keys.value[k] :
            k \in DOMAIN output.operation.request_items.value[table_name].keys.value}
    ELSE {}

\* two entries of the items name the same table
SameTableTwice ==
    \E i, j \in DOMAIN input.items :
        i # j /\ input.items[i].key.table_name = input.items[j].key.table_name

C30_EveryKeyListedOfDistinctTables ==
    (BatchGetItemConverted /\ ~SameTableTwice) =>
        \A i \in DOMAIN input.items : \A k \in DOMAIN input.items[i].value :
            keys_try_from(input.items[i].value[k]).keys
                \in ListedKeys(input.items[i].key.table_name)

\* a converted request of two entries with keys for two tables
C30_TwoTablesConverted ==
    /\ BatchGetItemConverted
    /\ ~SameTableTwice
    /\ Len(input.items) = 2
    /\ \A i \in DOMAIN input.items : Len(input.items[i].value) > 0

====
